---- MODULE Spec2Model ----
(***************************************************************************)
(* A model of the text-processing core of the Test-AutoEvermation          *)
(* extension: the line scanner of javaParser.ts (extractMethods,           *)
(* extractClassInfo), the import merger (extractImports, mergeImports),    *)
(* the fragment merger (mergeTestMethods), the path resolver of            *)
(* pathResolver.ts (resolveTestPath, convertToTestPath, parseJavaPath),    *)
(* the test runner of sidebarProvider.ts (_validateTestClassName,          *)
(* _runTest, _runAllTests, _executeCommand, _parseTestResult,              *)
(* _formatTestOutput), the script of its webview with the extension's      *)
(* side of the scenario requests (_generateScenarios), the status bar of   *)
(* statusBar.ts, the generateTest command of generateTest.ts with the      *)
(* FileManager, and the API key of SettingsManager and ApiClient.          *)
(*                                                                         *)
(* Java text is modelled at the level the code's regular expressions see   *)
(* it: a text is a sequence of lines and a line is a sequence of tokens    *)
(* (the words and punctuation marks separated by whitespace).  Every       *)
(* regular expression of the source is an operator over tokens.  Paths,    *)
(* target names and build output are strings: sequences of characters.     *)
(***************************************************************************)
EXTENDS Integers, Sequences, FiniteSets, TLC

VARIABLES
    \* ---- extractMethods (javaParser.ts:24-132)
    sourceCode,      \* the text being scanned, a sequence of lines
    i,               \* the loop index of the scan (0-based, next line to read)
    braceCount,
    inMethod,
    currentMethod,
    classStarted,
    methods,
    \* ---- mergeImports (javaParser.ts:249-278)
    existingCode,    \* the text merged into; replaced by each merge
    newCode,         \* the fragment
    merged,          \* the results of the merges done so far, oldest first
    \* ---- _runTest / _runAllTests / _executeCommand (sidebarProvider.ts:1660-1835)
    pc,              \* position of the run's async function
    runKind,         \* "single" (_runTest) or "all" (_runAllTests)
    testClassName,
    workspaceFolder, \* TRUE when vscode.workspace.workspaceFolders[0] exists
    rootFiles,       \* the build descriptors present at the workspace root
    buildTool,
    findFilesCalls,  \* number of vscode.workspace.findFiles calls made
    args,            \* the argument list handed to spawn
    child,           \* the child process: "none", "running", "exited"
    signals,         \* the signals sent to the child with child.kill
    stdout,
    stderr,
    timer,           \* the setTimeout of _executeCommand: its state ("none",
                     \* "pending", "fired") and its delay in milliseconds
    promise,         \* the promise _executeCommand returns
    posts,           \* the messages posted to the webview by the run
    parsed,          \* the results of _parseTestResult applied by the run
    exitCode,        \* <<>>, then <<the code the 'close' event reported>>
    \* ---- mergeTestMethods (javaParser.ts:191-229)
    testCode,        \* the existing test unit, a sequence of lines
    newTestMethods,  \* the generated text
    mergedTest,      \* <<>> before the call, <<the returned text>> after it
    \* ---- _parseTestResult (sidebarProvider.ts:1837-1860)
    result,          \* the build output, a string (a sequence of characters)
    resultTool,      \* the buildTool argument
    verdict,         \* <<>> before the call, <<the returned boolean>> after it
    \* ---- resolveTestPath (pathResolver.ts:23-75)
    inWorkspace,     \* TRUE when getWorkspaceFolder(sourceUri) finds a folder
    sourcePath,      \* the path of sourceUri relative to the folder, a string
    suggestedPath,   \* the suggestedPath argument; <<>> when it is not given
    testPath,        \* <<>>, then <<what convertToTestPath returned>> (line 39)
    testUri,         \* <<>> before the call, then <<the returned path>> or
                     \* <<"throw">>
    \* ---- parseJavaPath (pathResolver.ts:80-107)
    pathInfo,        \* <<>> before the call, then <<the returned record>> or
                     \* <<"throw">>
    testInfo,        \* the same for the call parseJavaPath(testUri) on the
                     \* Uri resolveTestPath returned
    \* ---- extractClassInfo (javaParser.ts:137-156)
    infoPc,          \* position of the call: "idle", "called", "scanning", "done"
    classInfo,       \* <<>> before the return, <<the returned value>> after it
    \* ---- _formatTestOutput (sidebarProvider.ts:1862-1890)
    testOutput,      \* the output argument, a string
    details,         \* <<>> before the call, <<the returned summary>> after it
    \* ---- _validateTestClassName (sidebarProvider.ts:1653-1658)
    candidate,       \* the name argument, a string
    accepted,        \* <<>> before the call, <<the returned boolean>> after it
    \* ---- the script of the sidebar webview (sidebarProvider.ts:2093-2515)
    currentFilePath, \* <<>> for null, else <<the path>>
    scenariosApproved,
    currentScenarios,
    availableMethods,
    selectedMethods,
    checkboxes,      \* the 'checked' property of the rendered method_<index>
                     \* checkboxes, in index order
    selectedFileHidden,
    methodSelectionSectionHidden,
    scenarioSectionHidden,
    scenarioEditorValue,
    scenarioEditorDisabled,
    scenarioStatus,
    btnApproveScenariosDisabled,
    btnRegenerateScenariosDisabled,
    btnGenerateScenariosDisabled,
    btnGenerateSelectedDisabled,
    webviewPosts,    \* the messages the script posted to the extension
    \* ---- StatusBarManager (statusBar.ts:19-146)
    currentState,    \* the StatusBarState
    statusBarItem,   \* text, tooltip, backgroundColor and color of the item
    statusBarShown,  \* "shown" after show(), "disposed" after dispose()
    successTimeout,  \* <<>> for undefined, else <<the timer handle>>
    timeouts,        \* the handles of the timers that are pending in the host
    timeoutCount,    \* the number of setTimeout calls so far
    firedTimeouts,   \* the handles of the timers whose callback has run
    \* ---- the generateTest command (generateTest.ts:13-199)
    genPc,           \* per invocation: the await it is suspended at, or how it returned
    cancellationRequested, \* per invocation: token.isCancellationRequested
    overwrite,       \* per invocation: the answer to the overwrite prompt, "none" before it
    statusCalls,     \* per invocation: the status bar states it has set, in order
    configured,      \* settings.isConfigured()
    includeDependencies, \* settings.shouldIncludeDependencies()
    openAfterGeneration, \* settings.shouldOpenAfterGeneration()
    testFileContent, \* <<>> when no file is at the test path, else <<its content>>
    backupFiles,     \* the contents of the backup files written
    fileOps,         \* the file operations of the invocations, in order
    \* ---- the extension's side of the scenario workflow (sidebarProvider.ts:1370-1647)
    scenarioCalls,   \* the calls of _generateScenarios: the file and whether the server has answered
    toWebview,       \* the messages the extension has posted and the webview has not handled
    \* ---- the API key: SettingsManager (settings.ts:84-301), ApiClient (part_002:27-68)
    secretKey,       \* the value secret storage holds for the key, "" when it holds none
    cachedApiKey,    \* SettingsManager.cachedApiKey
    loadPc,          \* the load the constructor started: "get" while it awaits, then "loaded" or "failed"
    clientHeader,    \* the X-API-Key header of ApiClient.client: <<>> or <<its value>>
    setCalls,        \* the calls of setApiKey that have settled: the key and the outcome
    sentRequests     \* the requests sent: the header, the stored key, whether the key was loaded

scanVars     == <<sourceCode, i, braceCount, inMethod, currentMethod, classStarted, methods>>
mergeVars    == <<existingCode, newCode, merged>>
runVars      == <<pc, runKind, testClassName, workspaceFolder, rootFiles, buildTool,
                  findFilesCalls, args, child, signals, stdout, stderr, timer, promise,
                  posts, parsed, exitCode>>
fragmentVars == <<testCode, newTestMethods, mergedTest>>
classifyVars == <<result, resultTool, verdict>>
pathVars     == <<inWorkspace, sourcePath, suggestedPath, testPath, testUri, pathInfo, testInfo>>
infoVars     == <<infoPc, classInfo>>
formatVars   == <<testOutput, details>>
validateVars == <<candidate, accepted>>
webviewVars  == <<currentFilePath, scenariosApproved, currentScenarios, availableMethods,
                  selectedMethods, checkboxes, selectedFileHidden,
                  methodSelectionSectionHidden, scenarioSectionHidden,
                  scenarioEditorValue, scenarioEditorDisabled, scenarioStatus,
                  btnApproveScenariosDisabled, btnRegenerateScenariosDisabled,
                  btnGenerateScenariosDisabled, btnGenerateSelectedDisabled,
                  webviewPosts>>
statusVars == <<currentState, statusBarItem, statusBarShown, successTimeout, timeouts, timeoutCount, firedTimeouts>>
generateVars == <<genPc, cancellationRequested, overwrite, statusCalls, configured, includeDependencies, openAfterGeneration, testFileContent, backupFiles, fileOps>>
scenarioVars == <<scenarioCalls, toWebview>>
clientVars == <<secretKey, cachedApiKey, loadPc, clientHeader, setCalls, sentRequests>>
vars         == <<scanVars, mergeVars, runVars, fragmentVars, classifyVars, pathVars,
                  infoVars, formatVars, validateVars, webviewVars,
                  statusVars,
                  generateVars,
                  scenarioVars,
                  clientVars>>

\* the variables an operation of one component leaves alone
notScanVars     == <<mergeVars, runVars, fragmentVars, classifyVars, pathVars,
                    infoVars, formatVars, validateVars, webviewVars,
                  statusVars,
                  generateVars,
                  scenarioVars,
                  clientVars>>
notMergeVars    == <<scanVars, runVars, fragmentVars, classifyVars, pathVars,
                    infoVars, formatVars, validateVars, webviewVars,
                  statusVars,
                  generateVars,
                  scenarioVars,
                  clientVars>>
notRunVars      == <<scanVars, mergeVars, fragmentVars, classifyVars, pathVars,
                    infoVars, formatVars, validateVars, webviewVars,
                  statusVars,
                  generateVars,
                  scenarioVars,
                  clientVars>>
notFragmentVars == <<scanVars, mergeVars, runVars, classifyVars, pathVars,
                    infoVars, formatVars, validateVars, webviewVars,
                  statusVars,
                  generateVars,
                  scenarioVars,
                  clientVars>>
notClassifyVars == <<scanVars, mergeVars, runVars, fragmentVars, pathVars,
                    infoVars, formatVars, validateVars, webviewVars,
                  statusVars,
                  generateVars,
                  scenarioVars,
                  clientVars>>
notPathVars     == <<scanVars, mergeVars, runVars, fragmentVars, classifyVars,
                    infoVars, formatVars, validateVars, webviewVars,
                  statusVars,
                  generateVars,
                  scenarioVars,
                  clientVars>>
notInfoVars == <<scanVars, mergeVars, runVars, fragmentVars, classifyVars,
                    pathVars, formatVars, validateVars, webviewVars,
                  statusVars,
                  generateVars,
                  scenarioVars,
                  clientVars>>
notFormatVars == <<scanVars, mergeVars, runVars, fragmentVars, classifyVars,
                    pathVars, infoVars, validateVars, webviewVars,
                  statusVars,
                  generateVars,
                  scenarioVars,
                  clientVars>>
notValidateVars == <<scanVars, mergeVars, runVars, fragmentVars, classifyVars,
                    pathVars, infoVars, formatVars, webviewVars,
                  statusVars,
                  generateVars,
                  scenarioVars,
                  clientVars>>
notWebviewVars == <<scanVars, mergeVars, runVars, fragmentVars, classifyVars,
                    pathVars, infoVars, formatVars, validateVars,
                  statusVars,
                  generateVars,
                  scenarioVars,
                  clientVars>>
notStatusVars == <<scanVars, mergeVars, runVars, fragmentVars, classifyVars, pathVars, infoVars, formatVars, validateVars, webviewVars,
                  generateVars,
                  scenarioVars,
                  clientVars>>
notGenerateVars == <<scanVars, mergeVars, runVars, fragmentVars, classifyVars, pathVars, infoVars, formatVars, validateVars, webviewVars, statusVars,
                  scenarioVars,
                  clientVars>>
notScenarioVars == <<scanVars, mergeVars, runVars, fragmentVars, classifyVars, pathVars,
                  infoVars, formatVars, validateVars, webviewVars, statusVars,
                  generateVars,
                  clientVars>>
notWebviewScenarioVars ==
                <<scanVars, mergeVars, runVars, fragmentVars, classifyVars, pathVars,
                  infoVars, formatVars, validateVars, statusVars, generateVars,
                  clientVars>>
notClientVars == <<scanVars, mergeVars, runVars, fragmentVars, classifyVars, pathVars,
                  infoVars, formatVars, validateVars, webviewVars, statusVars,
                  generateVars, scenarioVars>>

(***************************************************************************)
(* Sequence helpers.                                                       *)
(***************************************************************************)
Range(s) == {s[k] : k \in 1..Len(s)}

RECURSIVE CountTok(_, _)
\* (line.match(/\{/g) || []).length : the occurrences of one character in a line
CountTok(line, t) ==
    IF line = <<>> THEN 0
    ELSE (IF Head(line) = t THEN 1 ELSE 0) + CountTok(Tail(line), t)

\* the index of the first occurrence of t in line, 0 when there is none
FirstIndex(line, t) ==
    IF t \in Range(line)
    THEN CHOOSE k \in 1..Len(line) : line[k] = t /\ \A j \in 1..(k - 1) : line[j] # t
    ELSE 0

(***************************************************************************)
(* The scanner's regular expressions, over tokens.                         *)
(***************************************************************************)
\* the modifier keywords of methodRegex
Modifiers == {"public", "private", "protected", "static", "final", "abstract",
              "synchronized", "native", "strictfp"}

Visibility == {"public", "private", "protected"}

\* the tokens that are not \w+ words
Punctuation == {"(", ")", "{", "}", ";", "//", "/*", "*", "@Test", "="}

\* \w+ : Java keywords are words like any other
IsWord(t) == t \notin Punctuation

\* line.trim() === '' || startsWith('//') || startsWith('*') || startsWith('/*')
IsBlankOrComment(line) ==
    \/ line = <<>>
    \/ line[1] \in {"//", "*", "/*"}

\* a line with the optional visibility keyword removed: (?:public|private|protected)?\s*
DropVisibility(line) ==
    IF line # <<>> /\ line[1] \in Visibility THEN Tail(line) ELSE line

\* /^\s*(?:public|private|protected)?\s*(?:abstract\s+)?class\s+/
IsClassStart(line) ==
    LET rest  == DropVisibility(line)
        rest2 == IF rest # <<>> /\ rest[1] = "abstract" THEN Tail(rest) ELSE rest
    IN  Len(rest2) >= 2 /\ rest2[1] = "class"

\* skipPatterns: class, interface and enum openings and annotations
IsSkipPattern(line) ==
    LET rest == DropVisibility(line)
    IN  \/ Len(rest) >= 2 /\ rest[1] \in {"class", "interface", "enum"}
        \/ line # <<>> /\ line[1] = "@Test"

\* methodRegex: (modifier\s+)* type \s+ name \s* ( [^)]* ) ...
\* The type and the name are the two words before the first "(", and every
\* token before them must be a modifier keyword.
MethodMatches(line) ==
    LET p == FirstIndex(line, "(")
    IN  /\ p >= 3
        /\ IsWord(line[p - 2])
        /\ IsWord(line[p - 1])
        /\ \A k \in 1..(p - 3) : line[k] \in Modifiers
        /\ \E q \in (p + 1)..Len(line) : line[q] = ")"

\* match[2], match[3] and, from match[1], the modifier list.  A repeated
\* capture group keeps its last repetition only, so match[1] is the modifier
\* right before the type.
MatchReturnType(line) == line[FirstIndex(line, "(") - 2]
MatchName(line) == line[FirstIndex(line, "(") - 1]
MatchModifiers(line) ==
    LET p == FirstIndex(line, "(")
    IN  IF p > 3 THEN <<line[p - 3]>> ELSE <<>>

\* match[4]: the raw parameter text, between the first "(" and the next ")"
MatchParameters(line) ==
    LET p == FirstIndex(line, "(")
        q == CHOOSE k \in (p + 1)..Len(line) :
                 line[k] = ")" /\ \A j \in (p + 1)..(k - 1) : line[j] # ")"
    IN  SubSeq(line, p + 1, q - 1)

(***************************************************************************)
(* extractMethods: one step of the for loop per line.                      *)
(***************************************************************************)
\* the lines the scanned texts are made of
ScanLinePool ==
    { <<"public", "class", "A", "{">>,
      <<"public", "int", "add", "(", "int", "a", ")", "{">>,
      <<"static", "final", "int", "f", "(", ")", "{", "}">>,
      <<"abstract", "int", "area", "(", ")", ";">>,
      <<"A", "A", "(", ")", "{">>,
      <<"return", "g", "(", ")", ";">>,
      <<"if", "(", "a", ")", "{">>,
      <<"}">>,
      <<"//", "}">> }

MaxLines == 4

\* braceCount += (line.match(/\{/g) || []).length; braceCount -= ...(/\}/g)...
NetBraces(line) == CountTok(line, "{") - CountTok(line, "}")

\* a scanner without the constructor heuristic
NeverConstructor(returnType, methodName) == FALSE

\* line 93: returnType === methodName
IsConstructor(returnType, methodName) == returnType = methodName

\* lines 97-108: the record of a matched declaration
NewMethod(line, lineNum) ==
    [ name       |-> MatchName(line),
      signature  |-> MatchModifiers(line) \o <<MatchReturnType(line), MatchName(line), "(">>
                         \o MatchParameters(line) \o <<")">>,
      returnType |-> MatchReturnType(line),
      parameters |-> MatchParameters(line),
      modifiers  |-> MatchModifiers(line),
      startLine  |-> lineNum,
      endLine    |-> lineNum ]

\* endLine taken from the 0-based loop index
EndAtIndex(m, lineNum) == [m EXCEPT !.endLine = lineNum - 1]

\* currentMethod.endLine = lineNum (lines 71 and 119)
EndAt(m, lineNum) == [m EXCEPT !.endLine = lineNum]

\* a scanner that ends a member only when the count falls below zero
TrackLineBelowZero(line, lineNum) ==
    LET count == braceCount + NetBraces(line)
    IN  IF count < 0
        THEN /\ methods' = Append(methods, EndAt(currentMethod[1], lineNum))
             /\ currentMethod' = <<>>
             /\ inMethod' = FALSE
             /\ braceCount' = 0
        ELSE /\ braceCount' = count
             /\ UNCHANGED <<methods, currentMethod, inMethod>>

\* lines 66-78: a line read while a method is tracked
TrackLine(line, lineNum) ==
    LET count == braceCount + NetBraces(line)
    IN  IF count <= 0
        THEN /\ methods' = Append(methods, EndAt(currentMethod[1], lineNum))
             /\ currentMethod' = <<>>
             /\ inMethod' = FALSE
             /\ braceCount' = 0
        ELSE /\ braceCount' = count
             /\ UNCHANGED <<methods, currentMethod, inMethod>>

\* lines 82-127: a line tried as a declaration
DeclareLine(line, lineNum) ==
    IF ~MethodMatches(line) \/ IsConstructor(MatchReturnType(line), MatchName(line))
    THEN UNCHANGED <<methods, currentMethod, inMethod, braceCount>>
    ELSE IF "{" \in Range(line)
         THEN /\ braceCount' = NetBraces(line)
              /\ IF NetBraces(line) > 0
                 THEN /\ inMethod' = TRUE
                      /\ currentMethod' = <<NewMethod(line, lineNum)>>
                      /\ UNCHANGED methods
                 ELSE /\ methods' = Append(methods, EndAt(NewMethod(line, lineNum), lineNum))
                      /\ currentMethod' = <<>>
                      /\ UNCHANGED inMethod
         ELSE /\ inMethod' = TRUE
              /\ braceCount' = 0
              /\ currentMethod' = <<NewMethod(line, lineNum)>>
              /\ UNCHANGED methods

\* a loop body that tries every line as a declaration, unit opened or not
ScanLineAnywhere ==
    /\ i < Len(sourceCode)
    /\ LET line    == sourceCode[i + 1]
           lineNum == i + 1
       IN  IF IsBlankOrComment(line)
           THEN UNCHANGED <<braceCount, inMethod, currentMethod, classStarted, methods>>
           ELSE IF IsClassStart(line)
           THEN /\ classStarted' = TRUE
                /\ UNCHANGED <<braceCount, inMethod, currentMethod, methods>>
           ELSE IF IsSkipPattern(line)
           THEN UNCHANGED <<braceCount, inMethod, currentMethod, classStarted, methods>>
           ELSE IF inMethod /\ currentMethod # <<>>
           THEN /\ TrackLine(line, lineNum)
                /\ UNCHANGED classStarted
           ELSE /\ DeclareLine(line, lineNum)
                /\ UNCHANGED classStarted
    /\ i' = i + 1
    /\ UNCHANGED <<sourceCode, notScanVars>>

\* the body of the for loop, lines 45-129
ScanLine ==
    /\ i < Len(sourceCode)
    /\ LET line    == sourceCode[i + 1]
           lineNum == i + 1
       IN  IF IsBlankOrComment(line)
           THEN UNCHANGED <<braceCount, inMethod, currentMethod, classStarted, methods>>
           ELSE IF IsClassStart(line)
           THEN /\ classStarted' = TRUE
                /\ UNCHANGED <<braceCount, inMethod, currentMethod, methods>>
           ELSE IF IsSkipPattern(line)
           THEN UNCHANGED <<braceCount, inMethod, currentMethod, classStarted, methods>>
           ELSE IF inMethod /\ currentMethod # <<>>
           THEN /\ TrackLine(line, lineNum)
                /\ UNCHANGED classStarted
           ELSE IF classStarted
           THEN /\ DeclareLine(line, lineNum)
                /\ UNCHANGED classStarted
           ELSE UNCHANGED <<braceCount, inMethod, currentMethod, classStarted, methods>>
    /\ i' = i + 1
    /\ UNCHANGED <<sourceCode, notScanVars>>

\* the scan has read every line: extractMethods returns methods
ScanDone == i = Len(sourceCode)

(***************************************************************************)
(* extractImports and mergeImports.                                        *)
(***************************************************************************)
\* the texts of 1..n lines drawn from pool ('text'.split('\n') is never empty)
Texts(pool, n) == UNION {[1..k -> pool] : k \in 1..n}

RECURSIVE TokensFrom(_, _)
\* the tokens of a text from line k on, each with the number of its line
TokensFrom(code, k) ==
    IF k > Len(code) THEN <<>>
    ELSE [j \in 1..Len(code[k]) |-> [tok |-> code[k][j], line |-> k]]
             \o TokensFrom(code, k + 1)

\* [\w.]+(?:\.\*)? : a dotted name, one token
IsImportName(t) == IsWord(t)

\* importRegex /^\s*import\s+([\w.]+(?:\.\*)?)\s*;/gm tried at the start of
\* line k: \s also matches line breaks, so the three tokens may lie on
\* several lines
ImportMatchAt(code, k) ==
    LET t == TokensFrom(code, k)
    IN  /\ Len(t) >= 3
        /\ t[1].tok = "import"
        /\ IsImportName(t[2].tok)
        /\ t[3].tok = ";"

RECURSIVE ExtractImportsFrom(_, _)
\* the while loop of extractImports: after a match the search goes on behind
\* it, and ^ matches next at the start of the line after the match's end
ExtractImportsFrom(code, k) ==
    IF k > Len(code) THEN <<>>
    ELSE IF ImportMatchAt(code, k)
         THEN LET t == TokensFrom(code, k)
              IN  <<t[2].tok>> \o ExtractImportsFrom(code, t[3].line + 1)
         ELSE ExtractImportsFrom(code, k + 1)

ExtractImports(code) == ExtractImportsFrom(code, 1)

\* line.match(/^\s*import\s+/)
IsImportLine(line) == Len(line) >= 2 /\ line[1] = "import"

\* line.match(/^\s*(?:public\s+)?class\s+/)
IsUnitOpening(line) ==
    \/ Len(line) >= 2 /\ line[1] = "class"
    \/ Len(line) >= 3 /\ line[1] = "public" /\ line[2] = "class"

RECURSIVE InsertIndexFrom(_, _, _)
\* lines 262-271: the loop that finds insertIndex; k is the 1-based line
InsertIndexFrom(lines, k, insertIndex) ==
    IF k > Len(lines) THEN insertIndex
    ELSE IF IsImportLine(lines[k]) THEN InsertIndexFrom(lines, k + 1, k)
    ELSE IF IsUnitOpening(lines[k]) THEN insertIndex
    ELSE InsertIndexFrom(lines, k + 1, insertIndex)

InsertIndex(lines) == InsertIndexFrom(lines, 1, 0)

\* a merger that adds every directive of the fragment
ImportsToAddAll(existing, fragment) == ExtractImports(fragment)

\* line 254: newImports.filter(imp => !existingImports.has(imp))
ImportsToAdd(existing, fragment) ==
    LET existingImports == Range(ExtractImports(existing))
    IN  SelectSeq(ExtractImports(fragment), LAMBDA imp : imp \notin existingImports)

\* line 274: importsToAdd.map(imp => `import ${imp};`)
ImportLines(importsToAdd) ==
    [k \in 1..Len(importsToAdd) |-> <<"import", importsToAdd[k], ";">>]

\* lines.splice(insertIndex, 0, ...importLines)
Splice(lines, insertIndex, importLines) ==
    SubSeq(lines, 1, insertIndex) \o importLines
        \o SubSeq(lines, insertIndex + 1, Len(lines))

MergeImports(existing, fragment) ==
    LET importsToAdd == ImportsToAdd(existing, fragment)
    IN  IF importsToAdd = <<>> THEN existing
        ELSE Splice(existing, InsertIndex(existing), ImportLines(importsToAdd))

\* the lines the existing texts and the fragments are made of
ExistingLinePool ==
    { <<"package", "p", ";">>,
      <<"import", "a.B", ";">>,
      <<"import", "c.D", ";">>,
      <<"import", "a.B">>,
      <<";">>,
      <<"public", "class", "A", "{">> }

FragmentLinePool ==
    { <<"import", "a.B", ";">>,
      <<"import", "c.D", ";">>,
      <<"public", "class", "ATest", "{">> }

MaxExistingLines == 3
MaxFragmentLines == 2
MaxMerges == 2

\* the text the next merge is applied to
CurrentCode == IF merged = <<>> THEN existingCode ELSE merged[Len(merged)]

\* one call mergeImports(current, newCode), its result kept as the new text
Merge ==
    /\ Len(merged) < MaxMerges
    /\ merged' = Append(merged, MergeImports(CurrentCode, newCode))
    /\ UNCHANGED <<existingCode, newCode, notMergeVars>>

(***************************************************************************)
(* extractClassInfo: the two regular expressions, then extractMethods.     *)
(***************************************************************************)
\* /^\s*package\s+([\w.]+)\s*;/m tried at the start of line k: \s also
\* matches line breaks, so the three tokens may lie on several lines
PackageMatchAt(code, k) ==
    LET t == TokensFrom(code, k)
    IN  /\ Len(t) >= 3
        /\ t[1].tok = "package"
        /\ IsImportName(t[2].tok)
        /\ t[3].tok = ";"

\* packageMatch ? packageMatch[1] : '' (lines 139, 152): String.match returns
\* the first match
PackageName(code) ==
    LET starts == {k \in 1..Len(code) : PackageMatchAt(code, k)}
    IN  IF starts = {} THEN ""
        ELSE TokensFrom(code, CHOOSE k \in starts : \A k2 \in starts : k <= k2)[2].tok

\* the tokens of /(?:public\s+)?(?:abstract\s+)?class\s+(\w+)/ in t: the
\* index of the name, 0 when t does not begin with a match
ClassNameIndex(t) ==
    LET p == IF t # <<>> /\ t[1].tok = "public" THEN 2 ELSE 1
        q == IF Len(t) >= p /\ t[p].tok = "abstract" THEN p + 1 ELSE p
    IN  IF Len(t) >= q + 1 /\ t[q].tok = "class" /\ IsWord(t[q + 1].tok)
        THEN q + 1 ELSE 0

\* /^\s*(?:public\s+)?(?:abstract\s+)?class\s+(\w+)/m tried at the start of
\* line k
ClassMatchAt(code, k) == ClassNameIndex(TokensFrom(code, k)) # 0

\* classMatch[1] of the first match, <<>> when classMatch is null (line 142)
ClassMatch(code) ==
    LET starts == {k \in 1..Len(code) : ClassMatchAt(code, k)}
    IN  IF starts = {} THEN <<>>
        ELSE LET t == TokensFrom(code, CHOOSE k \in starts : \A k2 \in starts : k <= k2)
             IN  <<t[ClassNameIndex(t)].tok>>

\* return null (line 148)
NullInfo == [isNull |-> TRUE, name |-> "", packageName |-> "", methods |-> <<>>]

\* lines 138-149: the two matches; without a class match the call returns
\* null, with one it goes on to extractMethods(sourceCode)
ExtractClassInfo ==
    /\ infoPc = "called"
    /\ IF ClassMatch(sourceCode) = <<>>
       THEN /\ infoPc' = "done"
            /\ classInfo' = <<NullInfo>>
       ELSE /\ infoPc' = "scanning"
            /\ UNCHANGED classInfo
    /\ UNCHANGED notInfoVars

\* lines 150-155: extractMethods has returned, the record is built
ExtractClassInfoReturn ==
    /\ infoPc = "scanning"
    /\ ScanDone
    /\ infoPc' = "done"
    /\ classInfo' = << [ isNull      |-> FALSE,
                         name        |-> ClassMatch(sourceCode)[1],
                         packageName |-> PackageName(sourceCode),
                         methods     |-> methods ] >>
    /\ UNCHANGED notInfoVars

\* the six-line unit of the documentation
CalculatorUnit ==
    << <<"package", "com.example", ";">>,
       <<"public", "class", "Calculator", "{">>,
       <<"public", "int", "add", "(", "int", "a", ",", "int", "b", ")", "{">>,
       <<"return", "a", "+", "b", ";">>,
       <<"}">>,
       <<"}">> >>

\* the lines the texts given to extractClassInfo are made of
InfoLinePool ==
    { <<"package", "com.example", ";">>,
      <<"package", "com.example">>,
      <<"public", "class", "Calculator", "{">>,
      <<"abstract", "class", "Shape", "{">>,
      <<"public", "final", "class", "Calculator", "{">>,
      <<"public", "interface", "Shape", "{">>,
      <<"public", "int", "add", "(", "int", "a", ",", "int", "b", ")", "{">>,
      <<"return", "a", "+", "b", ";">>,
      <<"}">> }

MaxInfoLines == 4

(***************************************************************************)
(* mergeTestMethods.                                                       *)
(***************************************************************************)
RECURSIVE LastBraceIndexFrom(_, _, _, _, _)
\* lines 198-213: the loop that finds lastBraceIndex; k is the 1-based line,
\* count, started and last are braceCount, classStarted and lastBraceIndex
\* (0-based, -1 when no line was recorded)
LastBraceIndexFrom(lines, k, count, started, last) ==
    IF k > Len(lines) THEN last
    ELSE LET nowStarted == started \/ IsUnitOpening(lines[k])
             nowCount   == IF nowStarted THEN count + NetBraces(lines[k]) ELSE count
             nowLast    == IF nowStarted /\ nowCount = 0 /\ "}" \in Range(lines[k])
                           THEN k - 1 ELSE last
         IN  LastBraceIndexFrom(lines, k + 1, nowCount, nowStarted, nowLast)

LastBraceIndex(lines) == LastBraceIndexFrom(lines, 1, 0, FALSE, -1)

RECURSIVE TokensBefore(_, _)
\* the number of tokens of a text in front of line k
TokensBefore(code, k) ==
    IF k <= 1 THEN 0 ELSE TokensBefore(code, k - 1) + Len(code[k - 1])

\* newTestMethods.match(/(@Test[\s\S]*?)(?=\s*}\s*$)/): the pattern matches
\* when the last token of the text is "}" and an @Test stands in front of it
NewMethodsMatch(fragment) ==
    LET t == TokensFrom(fragment, 1)
    IN  /\ t # <<>>
        /\ t[Len(t)].tok = "}"
        /\ \E a \in 1..(Len(t) - 1) : t[a].tok = "@Test"

\* match[1]: the text from the first @Test up to the last token in front of
\* the closing "}"; the white space in front of the "}" is not captured
NewMethodsGroup(fragment) ==
    LET t     == TokensFrom(fragment, 1)
        a     == CHOOSE x \in 1..Len(t) :
                     t[x].tok = "@Test" /\ \A y \in 1..(x - 1) : t[y].tok # "@Test"
        b     == Len(t) - 1
        first == t[a].line
        last  == t[b].line
    IN  [k \in 1..(last - first + 1) |->
            LET ln  == first + k - 1
                off == TokensBefore(fragment, ln)
                lo  == IF a - off > 1 THEN a - off ELSE 1
                hi  == IF b - off < Len(fragment[ln]) THEN b - off ELSE Len(fragment[ln])
            IN  SubSeq(fragment[ln], lo, hi)]

\* line 222
MethodsToInsert(fragment) ==
    IF NewMethodsMatch(fragment) THEN NewMethodsGroup(fragment) ELSE fragment

\* '    // Additional test methods'
MarkerLine == <<"//", "Additional", "test", "methods">>

\* an insertion behind the line found
InsertAfterBrace(lines, lastBraceIndex, methodsToInsert) ==
    SubSeq(lines, 1, lastBraceIndex + 1) \o << <<>>, MarkerLine >> \o methodsToInsert
        \o SubSeq(lines, lastBraceIndex + 2, Len(lines))

\* lines 225-228: [...beforeBrace, '', marker, methodsToInsert, ...afterBrace]
InsertBeforeBrace(lines, lastBraceIndex, methodsToInsert) ==
    SubSeq(lines, 1, lastBraceIndex) \o << <<>>, MarkerLine >> \o methodsToInsert
        \o SubSeq(lines, lastBraceIndex + 1, Len(lines))

MergeTestMethods(existing, fragment) ==
    LET lastBraceIndex == LastBraceIndex(existing)
    IN  IF lastBraceIndex = -1
        THEN existing \o << <<>> >> \o fragment
        ELSE InsertBeforeBrace(existing, lastBraceIndex, MethodsToInsert(fragment))

\* the lines the existing test units are made of
TestLinePool ==
    { <<"public", "class", "ATest", "{">>,
      <<"@Test">>,
      <<"void", "t", "(", ")", "{">>,
      <<"void", "u", "(", ")", "{", "}">>,
      <<"}">>,
      <<"//", "}">>,
      <<>> }

MaxTestLines == 4

\* the generated texts: a unit wrapping one member, the same on one line, the
\* same followed by an empty line, a bare member, a member without the
\* marker, and a marked declaration without a body
GeneratedTexts ==
    { << <<"public", "class", "ATest", "{">>, <<"@Test">>,
         <<"void", "n", "(", ")", "{", "}">>, <<"}">> >>,
      << <<"class", "ATest", "{", "@Test", "void", "n", "(", ")", "{", "}", "}">> >>,
      << <<"class", "ATest", "{">>, <<"@Test", "void", "n", "(", ")", "{">>, <<"}">>,
         <<>>, <<"}">>, <<>> >>,
      << <<"@Test">>, <<"void", "n", "(", ")", "{">>, <<"}">> >>,
      << <<"void", "n", "(", ")", "{", "}">> >>,
      << <<"@Test">>, <<"void", "n", "(", ")", ";">> >> }

\* one call mergeTestMethods(testCode, newTestMethods)
MergeTests ==
    /\ mergedTest = <<>>
    /\ mergedTest' = <<MergeTestMethods(testCode, newTestMethods)>>
    /\ UNCHANGED <<testCode, newTestMethods, notFragmentVars>>

(***************************************************************************)
(* The test runner.  Strings that the code inspects (the target name, the  *)
(* build output) are sequences of characters.                              *)
(***************************************************************************)
\* the string of n characters c
Rep(c, n) == [k \in 1..n |-> c]

RECURSIVE Concat(_)
\* the concatenation of a sequence of strings
Concat(ss) == IF ss = <<>> THEN <<>> ELSE Head(ss) \o Concat(Tail(ss))

\* a-z and A-Z, 0-9
Letters ==
    { "a", "b", "c", "d", "e", "f", "g", "h", "i", "j", "k", "l", "m",
      "n", "o", "p", "q", "r", "s", "t", "u", "v", "w", "x", "y", "z",
      "A", "B", "C", "D", "E", "F", "G", "H", "I", "J", "K", "L", "M",
      "N", "O", "P", "Q", "R", "S", "T", "U", "V", "W", "X", "Y", "Z" }

Digits == { "0", "1", "2", "3", "4", "5", "6", "7", "8", "9" }

\* [a-zA-Z_$] and [a-zA-Z0-9_$]
IsIdentStart(c) == c \in Letters \cup {"_", "$"}
IsIdentPart(c) == IsIdentStart(c) \/ c \in Digits

\* validPattern.test(name), with
\* validPattern = /^[a-zA-Z_$][a-zA-Z0-9_$]*(\.[a-zA-Z_$][a-zA-Z0-9_$]*)*\*?$/ :
\* a pattern that looks at the first character only
ValidPatternUnanchored(name) ==
    /\ name # <<>>
    /\ IsIdentStart(name[1])

\* behind the optional trailing *, identifiers separated by single dots: the
\* first character and every character behind a dot start an identifier,
\* every other character continues one, and the last is not a dot
ValidPattern(name) ==
    LET n == IF name # <<>> /\ name[Len(name)] = "*" THEN Len(name) - 1 ELSE Len(name)
    IN  /\ n >= 1
        /\ IsIdentStart(name[1])
        /\ \A k \in 2..n :
              IF name[k - 1] = "." THEN IsIdentStart(name[k])
              ELSE IsIdentPart(name[k]) \/ name[k] = "."
        /\ name[n] # "."

MaxNameLength == 256

\* _validateTestClassName
ValidateTestClassName(name) == ValidPattern(name) /\ Len(name) <= MaxNameLength

\* the target names a single-target run is asked for
TestNames ==
    { <<"F", "o", "o">>,
      <<"c", ".", "F", "T">>,
      <<"F", "*">>,
      <<"F", ";", " ", "r", "m">>,
      <<"1", "F">>,
      <<"F", ".">>,
      Rep("F", MaxNameLength),
      Rep("F", MaxNameLength + 1) }

\* String.prototype.toLowerCase, on the characters build output is made of
ToLowerChar(c) ==
    CASE c = "A" -> "a" [] c = "B" -> "b" [] c = "C" -> "c" [] c = "D" -> "d"
      [] c = "E" -> "e" [] c = "F" -> "f" [] c = "I" -> "i" [] c = "L" -> "l"
      [] c = "R" -> "r" [] c = "S" -> "s" [] c = "T" -> "t" [] c = "U" -> "u"
      [] OTHER -> c

\* a comparison that leaves the case of the output alone
KeepCase(str) == str

ToLowerCase(str) == [k \in 1..Len(str) |-> ToLowerChar(str[k])]

\* String.prototype.includes
Includes(str, sub) ==
    \E k \in 0..(Len(str) - Len(sub)) : SubSeq(str, k + 1, k + Len(sub)) = sub

KwBuildSuccessful == <<"b", "u", "i", "l", "d", " ", "s", "u", "c", "c", "e", "s", "s", "f", "u", "l">>
KwTest == <<"t", "e", "s", "t">>
KwFailed == <<"f", "a", "i", "l", "e", "d">>
KwFailure == <<"f", "a", "i", "l", "u", "r", "e">>
KwBuildFailed == <<"b", "u", "i", "l", "d", " ", "f", "a", "i", "l", "e", "d">>
KwTestFailed == <<"t", "e", "s", "t", " ", "f", "a", "i", "l", "e", "d">>
KwFailures == <<"f", "a", "i", "l", "u", "r", "e", "s", ":">>
KwBuildSuccess == <<"b", "u", "i", "l", "d", " ", "s", "u", "c", "c", "e", "s", "s">>
KwBuildFailure == <<"b", "u", "i", "l", "d", " ", "f", "a", "i", "l", "u", "r", "e">>
KwTestsRun == <<"t", "e", "s", "t", "s", " ", "r", "u", "n", ":">>
KwFail == <<"f", "a", "i", "l">>
KwError == <<"e", "r", "r", "o", "r">>

\* a classifier that looks for the negative signals first
ParseNegativeFirst(output, tool) ==
    LET lowerOutput == ToLowerCase(output)
    IN  IF tool = "gradle"
        THEN /\ ~Includes(lowerOutput, KwBuildFailed)
             /\ ~Includes(lowerOutput, KwTestFailed)
             /\ ~Includes(lowerOutput, KwFailures)
        ELSE IF tool = "maven"
        THEN /\ ~Includes(lowerOutput, KwBuildFailure)
             /\ ~Includes(lowerOutput, KwTestsRun)
             /\ ~Includes(lowerOutput, KwFailures)
        ELSE ~Includes(lowerOutput, KwFail) /\ ~Includes(lowerOutput, KwError)

\* _parseTestResult
ParseTestResult(output, tool) ==
    LET lowerOutput == ToLowerCase(output)
    IN  IF tool = "gradle"
        THEN IF \/ Includes(lowerOutput, KwBuildSuccessful)
                \/ /\ Includes(lowerOutput, KwTest)
                   /\ ~Includes(lowerOutput, KwFailed)
                   /\ ~Includes(lowerOutput, KwFailure)
             THEN TRUE
             ELSE /\ ~Includes(lowerOutput, KwBuildFailed)
                  /\ ~Includes(lowerOutput, KwTestFailed)
                  /\ ~Includes(lowerOutput, KwFailures)
        ELSE IF tool = "maven"
        THEN IF Includes(lowerOutput, KwBuildSuccess)
             THEN TRUE
             ELSE /\ ~Includes(lowerOutput, KwBuildFailure)
                  /\ ~Includes(lowerOutput, KwTestsRun)
                  /\ ~Includes(lowerOutput, KwFailures)
        ELSE ~Includes(lowerOutput, KwFail) /\ ~Includes(lowerOutput, KwError)

\* the chunks the child writes to its stdout and stderr
StdoutChunks ==
    { <<"B", "U", "I", "L", "D", " ", "S", "U", "C", "C", "E", "S", "S", "F", "U", "L", " ", "i", "n", " ", "3", "s", "\n">>,
      <<"B", "U", "I", "L", "D", " ", "F", "A", "I", "L", "E", "D", "\n">> }

StderrChunks ==
    { <<"e", "r", "r", "o", "r", ":", " ", "x", "\n">> }

MaxChunks == 1

\* the two globs of _detectBuildTool
GradleDescriptors == {"build.gradle", "build.gradle.kts"}
MavenDescriptors == {"pom.xml"}

\* the delay of the setTimeout of _executeCommand, line 1833
TimeoutMs == 5 * 60 * 1000

NoTimer == [state |-> "none", delay |-> 0]

\* the states of a promise: resolve and reject settle a pending promise and
\* do nothing to a settled one
Pending == [state |-> "pending", error |-> "", output |-> <<>>]
Resolved(output) == [state |-> "resolved", error |-> "", output |-> output]
Rejected(message) == [state |-> "rejected", error |-> message, output |-> <<>>]
\* a promise that a later resolve or reject settles again
SettleAgain(p, outcome) == outcome
Settle(p, outcome) == IF p.state = "pending" THEN outcome ELSE p

MsgInvalidName == "Invalid test class name. Only valid Java class names are allowed."
MsgNoWorkspace == "No workspace folder found"
MsgNoBuildFile == "No Maven or Gradle build file found"
MsgTimedOut == "Command timed out after 5 minutes"
MsgExitCode == "Command exited with code"
MsgSpawn == "spawn ENOENT"

PostRunning == [command |-> "testRunning"]
PostError(message) == [command |-> "testError", error |-> message]
PostResult(success) == [command |-> "testResult", success |-> success]

\* a catch block that swallows the error
CatchSilently(message) ==
    /\ pc' = "done"
    /\ UNCHANGED posts

\* the catch block of _runTest and _runAllTests
Catch(message) ==
    /\ posts' = Append(posts, PostError(message))
    /\ pc' = "done"

\* an argument list with the target name as an argument of its own for
\* tool B, and without the log level for tool A
BuildArgsLoose(kind, tool, name) ==
    IF tool = "gradle"
    THEN IF kind = "single" THEN <<<<"test">>, <<"--tests">>, name>>
         ELSE <<<<"test">>>>
    ELSE IF kind = "single" THEN <<<<"test">>, <<"-Dtest=">>, name>>
         ELSE <<<<"test">>>>

\* lines 1678-1690 and 1730-1742: the arguments for the detected tool
BuildArgs(kind, tool, name) ==
    IF tool = "gradle"
    THEN IF kind = "single" THEN <<<<"test">>, <<"--tests">>, name, <<"--info">>>>
         ELSE <<<<"test">>, <<"--info">>>>
    ELSE IF kind = "single" THEN <<<<"test">>, <<"-Dtest=">> \o name>>
         ELSE <<<<"test">>>>

\* lines 1692 and 1795-1833: the call of _executeCommand up to its return:
\* spawn, the listeners, the timer
ExecuteCommand(tool) ==
    /\ args' = BuildArgs(runKind, tool, testClassName)
    /\ child' = "running"
    /\ timer' = [state |-> "pending", delay |-> TimeoutMs]
    /\ promise' = Pending
    /\ pc' = "awaitExec"
    /\ UNCHANGED <<posts, stdout, stderr, signals>>

\* a run that does not validate the target name
DetectUnvalidated(kind, name) ==
    IF ~workspaceFolder
    THEN /\ posts' = <<PostRunning, PostError(MsgNoWorkspace)>>
         /\ pc' = "done"
         /\ UNCHANGED findFilesCalls
    ELSE /\ posts' = <<PostRunning>>
         /\ pc' = "detectGradle"
         /\ findFilesCalls' = findFilesCalls + 1

\* the synchronous part of _runTest and _runAllTests, up to the first await
ValidateAndDetect(kind, name) ==
    IF kind = "single" /\ ~ValidateTestClassName(name)
    THEN /\ posts' = <<PostRunning, PostError(MsgInvalidName)>>
         /\ pc' = "done"
         /\ UNCHANGED findFilesCalls
    ELSE IF ~workspaceFolder
    THEN /\ posts' = <<PostRunning, PostError(MsgNoWorkspace)>>
         /\ pc' = "done"
         /\ UNCHANGED findFilesCalls
    ELSE /\ posts' = <<PostRunning>>
         /\ pc' = "detectGradle"
         /\ findFilesCalls' = findFilesCalls + 1

RunTest(name) ==
    /\ pc = "idle"
    /\ runKind' = "single"
    /\ testClassName' = name
    /\ ValidateAndDetect("single", name)
    /\ UNCHANGED <<workspaceFolder, rootFiles, buildTool, args, child, signals,
                   stdout, stderr, timer, promise, parsed, exitCode, notRunVars>>

RunAllTests ==
    /\ pc = "idle"
    /\ runKind' = "all"
    /\ ValidateAndDetect("all", <<>>)
    /\ UNCHANGED <<testClassName, workspaceFolder, rootFiles, buildTool, args, child,
                   signals, stdout, stderr, timer, promise, parsed, exitCode, notRunVars>>

\* a detection that looks for tool B's descriptor first
DetectMavenFirst ==
    /\ pc = "detectGradle"
    /\ IF rootFiles \cap MavenDescriptors # {}
       THEN /\ buildTool' = "maven"
            /\ ExecuteCommand("maven")
            /\ UNCHANGED findFilesCalls
       ELSE /\ pc' = "detectMaven"
            /\ findFilesCalls' = findFilesCalls + 1
            /\ UNCHANGED <<buildTool, args, child, timer, promise, posts, stdout,
                           stderr, signals>>
    /\ UNCHANGED <<runKind, testClassName, workspaceFolder, rootFiles, parsed,
                   exitCode, notRunVars>>

\* _detectBuildTool, lines 1770-1777: the first findFiles has answered
DetectGradleDone ==
    /\ pc = "detectGradle"
    /\ IF rootFiles \cap GradleDescriptors # {}
       THEN /\ buildTool' = "gradle"
            /\ ExecuteCommand("gradle")
            /\ UNCHANGED findFilesCalls
       ELSE /\ pc' = "detectMaven"
            /\ findFilesCalls' = findFilesCalls + 1
            /\ UNCHANGED <<buildTool, args, child, timer, promise, posts, stdout,
                           stderr, signals>>
    /\ UNCHANGED <<runKind, testClassName, workspaceFolder, rootFiles, parsed,
                   exitCode, notRunVars>>

\* a detection that takes tool B for granted when no descriptor is found
DetectMavenDefault ==
    /\ pc = "detectMaven"
    /\ buildTool' = "maven"
    /\ ExecuteCommand("maven")
    /\ UNCHANGED <<runKind, testClassName, workspaceFolder, rootFiles, findFilesCalls,
                   parsed, exitCode, notRunVars>>

\* _detectBuildTool, lines 1779-1788: the second findFiles has answered
DetectMavenDone ==
    /\ pc = "detectMaven"
    /\ IF rootFiles \cap MavenDescriptors # {}
       THEN /\ buildTool' = "maven"
            /\ ExecuteCommand("maven")
       ELSE /\ buildTool' = "null"
            /\ Catch(MsgNoBuildFile)
            /\ UNCHANGED <<args, child, timer, promise, stdout, stderr, signals>>
    /\ UNCHANGED <<runKind, testClassName, workspaceFolder, rootFiles, findFilesCalls,
                   parsed, exitCode, notRunVars>>

\* child.stdout.on('data')
ChildStdout(chunk) ==
    /\ child = "running"
    /\ Len(stdout) < MaxChunks
    /\ stdout' = Append(stdout, chunk)
    /\ UNCHANGED <<pc, runKind, testClassName, workspaceFolder, rootFiles, buildTool,
                   findFilesCalls, args, child, signals, stderr, timer, promise, posts,
                   parsed, exitCode, notRunVars>>

\* child.stderr.on('data')
ChildStderr(chunk) ==
    /\ child = "running"
    /\ Len(stderr) < MaxChunks
    /\ stderr' = Append(stderr, chunk)
    /\ UNCHANGED <<pc, runKind, testClassName, workspaceFolder, rootFiles, buildTool,
                   findFilesCalls, args, child, signals, stdout, timer, promise, posts,
                   parsed, exitCode, notRunVars>>

\* child.on('error'): the process could not be spawned
ChildError ==
    /\ child = "running"
    /\ stdout = <<>> /\ stderr = <<>> /\ signals = <<>>
    /\ child' = "failed"
    /\ promise' = Settle(promise, Rejected(MsgSpawn))
    /\ UNCHANGED <<pc, runKind, testClassName, workspaceFolder, rootFiles, buildTool,
                   findFilesCalls, args, signals, stdout, stderr, timer, posts, parsed,
                   exitCode, notRunVars>>

\* the exit codes 'close' can report: a process that was not spawned reports
\* the negative error number, a process ended by a signal reports null (-1)
CloseCodes ==
    IF child = "failed" THEN {-2}
    ELSE IF signals # <<>> THEN {0, 1, -1}
    ELSE {0, 1}

\* a 'close' handler for which every non-zero exit code is a failure
ChildCloseStrict(code) ==
    /\ child \in {"running", "failed"}
    /\ code \in CloseCodes
    /\ child' = "exited"
    /\ exitCode' = <<code>>
    /\ LET output == Concat(stdout) \o <<"\n">> \o Concat(stderr)
       IN  IF code # 0
           THEN promise' = Settle(promise, Rejected(MsgExitCode))
           ELSE promise' = Settle(promise, Resolved(output))
    /\ UNCHANGED <<pc, runKind, testClassName, workspaceFolder, rootFiles, buildTool,
                   findFilesCalls, args, signals, stdout, stderr, timer, posts, parsed,
                   notRunVars>>

\* child.on('close'), lines 1819-1827
ChildClose(code) ==
    /\ child \in {"running", "failed"}
    /\ code \in CloseCodes
    /\ child' = "exited"
    /\ exitCode' = <<code>>
    /\ LET output == Concat(stdout) \o <<"\n">> \o Concat(stderr)
       IN  IF code # 0 /\ Concat(stdout) = <<>> /\ Concat(stderr) = <<>>
           THEN promise' = Settle(promise, Rejected(MsgExitCode))
           ELSE promise' = Settle(promise, Resolved(output))
    /\ UNCHANGED <<pc, runKind, testClassName, workspaceFolder, rootFiles, buildTool,
                   findFilesCalls, args, signals, stdout, stderr, timer, posts, parsed,
                   notRunVars>>

\* a timer callback whose reject overwrites an outcome already decided
TimerFireOverwrites ==
    /\ timer.state = "pending"
    /\ timer' = [timer EXCEPT !.state = "fired"]
    /\ signals' = IF child = "running" THEN Append(signals, "SIGTERM") ELSE signals
    /\ promise' = Rejected(MsgTimedOut)
    /\ UNCHANGED <<pc, runKind, testClassName, workspaceFolder, rootFiles, buildTool,
                   findFilesCalls, args, child, stdout, stderr, posts, parsed,
                   exitCode, notRunVars>>

\* the callback of setTimeout, lines 1830-1833; child.kill signals a child
\* that still has a process handle
TimerFire ==
    /\ timer.state = "pending"
    /\ timer' = [timer EXCEPT !.state = "fired"]
    /\ signals' = IF child = "running" THEN Append(signals, "SIGTERM") ELSE signals
    /\ promise' = Settle(promise, Rejected(MsgTimedOut))
    /\ UNCHANGED <<pc, runKind, testClassName, workspaceFolder, rootFiles, buildTool,
                   findFilesCalls, args, child, stdout, stderr, posts, parsed,
                   exitCode, notRunVars>>

\* lines 1692-1714: the run resumes behind await this._executeCommand(...)
Continue ==
    /\ pc = "awaitExec"
    /\ promise.state # "pending"
    /\ IF promise.state = "resolved"
       THEN /\ parsed' = Append(parsed, ParseTestResult(promise.output, buildTool))
            /\ posts' = Append(posts, PostResult(ParseTestResult(promise.output, buildTool)))
            /\ pc' = "done"
       ELSE /\ Catch(promise.error)
            /\ UNCHANGED parsed
    /\ UNCHANGED <<runKind, testClassName, workspaceFolder, rootFiles, buildTool,
                   findFilesCalls, args, child, signals, stdout, stderr, timer, promise,
                   exitCode, notRunVars>>

(***************************************************************************)
(* _parseTestResult as a function of its own: the outputs it is applied to *)
(* are concatenations of the lines build tools print.                      *)
(***************************************************************************)
ClassifyChunks ==
    StdoutChunks \cup StderrChunks \cup
    { <<"B", "U", "I", "L", "D", " ", "S", "U", "C", "C", "E", "S", "S", "\n">>,
      <<"B", "U", "I", "L", "D", " ", "F", "A", "I", "L", "U", "R", "E", "\n">>,
      <<"T", "e", "s", "t", "s", " ", "r", "u", "n", ":", " ", "1", ",", " ", "F", "a", "i", "l", "u", "r", "e", "s", ":", " ", "0", "\n">>,
      <<"B", "u", "i", "l", "d", " ", "S", "u", "c", "c", "e", "s", "s", "f", "u", "l", "\n">>,
      <<">", " ", "T", "a", "s", "k", " ", ":", "t", "e", "s", "t", "\n">>,
      <<"1", " ", "t", "e", "s", "t", " ", "F", "A", "I", "L", "E", "D", "\n">>,
      <<"o", "k", "\n">> }

MaxOutputChunks == 2

\* the outputs of at most n chunks
Outputs(n) == {Concat(cs) : cs \in UNION {[1..k -> ClassifyChunks] : k \in 0..n}}

\* the values of the buildTool argument: 'maven' | 'gradle' | null
BuildTools == {"gradle", "maven", "null"}

\* one call _parseTestResult(result, buildTool)
Classify ==
    /\ verdict = <<>>
    /\ verdict' = <<ParseTestResult(result, resultTool)>>
    /\ UNCHANGED <<result, resultTool, notClassifyVars>>

(***************************************************************************)
(* _validateTestClassName as a function of its own.                        *)
(***************************************************************************)
\* the characters the enumerated names are made of: a letter, a digit, the
\* other characters of the pattern, and characters a shell gives a meaning
NameAlphabet == {"F", "1", "_", "$", ".", "*", ";", " ", "/", "\""}

MaxCandidateLength == 3

\* the names given to _validateTestClassName: every name of at most
\* MaxCandidateLength characters of NameAlphabet, the names of the
\* documentation, and names of 256 and 257 characters
CandidateNames ==
    UNION {[1..n -> NameAlphabet] : n \in 0..MaxCandidateLength}
        \cup { <<"c", "o", "m", ".", "e", "x", "a", "m", "p", "l", "e", ".", "F", "o", "o", "T", "e", "s", "t">>,
               <<"F", "o", "o", "*">>,
               <<"U", "s", "e", "r", "S", "e", "r", "v", "i", "c", "e", "T", "e", "s", "t", ";", " ", "r", "m", " ", "-", "r", "f", " ", "/">>,
               <<"F", "o", "o", "T", "e", "s", "t", "'">>,
               <<"F", "o", "o", "|", "B", "a", "r">>,
               <<"F", "o", "o", ">", "x">>,
               <<"F", "o", "o", "&">>,
               <<"a", ".", "b", ".", "C", "$", "D", "_", "1", "*">>,
               Rep("F", MaxNameLength),
               Rep("F", MaxNameLength + 1),
               Rep("F", MaxNameLength - 1) \o <<"*">>,
               Rep("F", MaxNameLength) \o <<"*">> }

\* one call _validateTestClassName(name)
Validate ==
    /\ accepted = <<>>
    /\ accepted' = <<ValidateTestClassName(candidate)>>
    /\ UNCHANGED <<candidate, notValidateVars>>

(***************************************************************************)
(* _formatTestOutput.                                                      *)
(***************************************************************************)
RECURSIVE SplitLines(_)
\* output.split('\n')
SplitLines(str) ==
    IF "\n" \notin Range(str) THEN <<str>>
    ELSE <<SubSeq(str, 1, FirstIndex(str, "\n") - 1)>>
             \o SplitLines(SubSeq(str, FirstIndex(str, "\n") + 1, Len(str)))

RECURSIVE JoinLines(_)
\* lines.join('\n')
JoinLines(lines) ==
    IF lines = <<>> THEN <<>>
    ELSE IF Len(lines) = 1 THEN lines[1]
    ELSE lines[1] \o <<"\n">> \o JoinLines(Tail(lines))

KwPassed == <<"p", "a", "s", "s", "e", "d">>
KwSuccess == <<"s", "u", "c", "c", "e", "s", "s">>
KwBuild == <<"b", "u", "i", "l", "d">>
KwRunning == <<"r", "u", "n", "n", "i", "n", "g">>

\* line.trim().startsWith('>')
TrimStartsWithMarker(line) ==
    \E k \in 1..Len(line) :
        /\ line[k] = ">"
        /\ \A j \in 1..(k - 1) : line[j] \in {" ", "\t"}

\* the condition of lines 1869-1878
IsRelevantLine(line) ==
    LET lowerLine == ToLowerCase(line)
    IN  \/ Includes(lowerLine, KwTest)
        \/ Includes(lowerLine, KwPassed)
        \/ Includes(lowerLine, KwFailed)
        \/ Includes(lowerLine, KwSuccess)
        \/ Includes(lowerLine, KwFailure)
        \/ Includes(lowerLine, KwError)
        \/ Includes(lowerLine, KwBuild)
        \/ Includes(lowerLine, KwRunning)
        \/ TrimStartsWithMarker(line)

\* const maxLines = 30 (line 1884)
maxLines == 30

\* '\n... (truncated)' (line 1886)
TruncatedMarker == <<"\n", ".", ".", ".", " ", "(", "t", "r", "u", "n", "c", "a", "t", "e", "d", ")">>

\* output.substring(0, 1000)
FallbackLength == 1000

\* a summary that keeps every relevant line
FormatWithoutCap(output) ==
    LET relevantLines == SelectSeq(SplitLines(output), IsRelevantLine)
    IN  IF JoinLines(relevantLines) # <<>>
        THEN JoinLines(relevantLines)
        ELSE SubSeq(output, 1, IF Len(output) < FallbackLength THEN Len(output) ELSE FallbackLength)

\* _formatTestOutput (lines 1862-1890)
FormatTestOutput(output) ==
    LET relevantLines == SelectSeq(SplitLines(output), IsRelevantLine)
    IN  IF Len(relevantLines) > maxLines
        THEN JoinLines(SubSeq(relevantLines, 1, maxLines)) \o TruncatedMarker
        ELSE IF JoinLines(relevantLines) # <<>>
        THEN JoinLines(relevantLines)
        ELSE SubSeq(output, 1, IF Len(output) < FallbackLength THEN Len(output) ELSE FallbackLength)

\* the lines build output is made of here: lines that are relevant (by a
\* keyword, by the leading '>') and lines that are not
RelevantLinePool ==
    << <<"T", "e", "s", "t", "s", " ", "r", "u", "n", ":", " ", "1">>, <<" ", " ", ">", " ", "g", "o">>, <<"B", "U", "I", "L", "D", " ", "F", "A", "I", "L", "E", "D">> >>

OtherLinePool ==
    << <<"o", "k">>, <<>>, <<"a", "t", " ", "F", "o", "o", ".", "b", "a", "r">> >>

MaxRelevantLines == 32
MaxOtherLines == 3

\* an output of n relevant and m other lines: the other lines first
\* ("head"), last ("tail") or alternating with the relevant ones ("mixed")
OutputLines(n, m, style) ==
    LET rel(j) == RelevantLinePool[((j - 1) % Len(RelevantLinePool)) + 1]
        oth(j) == OtherLinePool[((j - 1) % Len(OtherLinePool)) + 1]
        c == IF n < m THEN n ELSE m
    IN  [k \in 1..(n + m) |->
            CASE style = "head" -> IF k <= m THEN oth(k) ELSE rel(k - m)
              [] style = "tail" -> IF k <= n THEN rel(k) ELSE oth(k - n)
              [] OTHER -> IF k <= 2 * c
                          THEN (IF k % 2 = 1 THEN rel((k + 1) \div 2) ELSE oth(k \div 2))
                          ELSE (IF n > m THEN rel(k - c) ELSE oth(k - c))]

\* the outputs given to _formatTestOutput; the last two are one line longer
\* than the fallback keeps, and two lines of which the fallback cuts the second
FormatOutputs ==
    { JoinLines(OutputLines(n, m, style)) :
          n \in 0..MaxRelevantLines, m \in 0..MaxOtherLines, style \in {"head", "tail", "mixed"} }
        \cup { Rep("x", FallbackLength + 1),
               Rep("x", FallbackLength - 2) \o <<"\n">> \o Rep("y", 4) }

\* one call _formatTestOutput(output)
Format ==
    /\ details = <<>>
    /\ details' = <<FormatTestOutput(testOutput)>>
    /\ UNCHANGED <<testOutput, notFormatVars>>

(***************************************************************************)
(* The path resolver (pathResolver.ts).  A path is a string, a sequence of *)
(* characters; path.parse and path.join are those of a POSIX host.         *)
(***************************************************************************)
\* String.prototype.endsWith
EndsWith(str, suffix) ==
    /\ Len(str) >= Len(suffix)
    /\ SubSeq(str, Len(str) - Len(suffix) + 1, Len(str)) = suffix

\* String.prototype.indexOf, -1 when sub does not occur
IndexOf(str, sub) ==
    IF Includes(str, sub)
    THEN CHOOSE k \in 0..(Len(str) - Len(sub)) :
             /\ SubSeq(str, k + 1, k + Len(sub)) = sub
             /\ \A j \in 0..(k - 1) : SubSeq(str, j + 1, j + Len(sub)) # sub
    ELSE -1

\* String.prototype.replace(sub, rep) with a string pattern: the first
\* occurrence only
ReplaceFirst(str, sub, rep) ==
    LET k == IndexOf(str, sub)
    IN  IF k = -1 THEN str
        ELSE SubSeq(str, 1, k) \o rep \o SubSeq(str, k + Len(sub) + 1, Len(str))

\* the index of the last occurrence of c in str, 0 when there is none
LastIndex(str, c) ==
    IF c \in Range(str)
    THEN CHOOSE k \in 1..Len(str) : str[k] = c /\ \A j \in (k + 1)..Len(str) : str[j] # c
    ELSE 0

RECURSIVE SplitPath(_)
\* str.split('/')
SplitPath(str) ==
    IF "/" \notin Range(str) THEN <<str>>
    ELSE LET k == FirstIndex(str, "/")
         IN  <<SubSeq(str, 1, k - 1)>> \o SplitPath(SubSeq(str, k + 1, Len(str)))

RECURSIVE JoinSegments(_)
\* segments.join('/')
JoinSegments(segs) ==
    IF segs = <<>> THEN <<>>
    ELSE IF Len(segs) = 1 THEN segs[1]
    ELSE segs[1] \o <<"/">> \o JoinSegments(Tail(segs))

RECURSIVE NormalizeSegments(_, _, _)
\* path.normalize on the segments of a path: empty and '.' segments are
\* dropped, '..' removes the segment in front of it; above the start of a
\* relative path '..' is kept, above the root it is dropped
NormalizeSegments(segs, acc, isAbsolute) ==
    IF segs = <<>> THEN acc
    ELSE LET seg == Head(segs)
         IN  IF seg = <<>> \/ seg = <<".">>
             THEN NormalizeSegments(Tail(segs), acc, isAbsolute)
             ELSE IF seg = <<".", ".">>
             THEN IF acc # <<>> /\ acc[Len(acc)] # <<".", ".">>
                  THEN NormalizeSegments(Tail(segs), SubSeq(acc, 1, Len(acc) - 1), isAbsolute)
                  ELSE IF isAbsolute
                  THEN NormalizeSegments(Tail(segs), acc, isAbsolute)
                  ELSE NormalizeSegments(Tail(segs), Append(acc, seg), isAbsolute)
             ELSE NormalizeSegments(Tail(segs), Append(acc, seg), isAbsolute)

\* path.join(...parts) for parts that do not end in a separator: the
\* non-empty parts joined by '/' and normalized
PathJoin(parts) ==
    LET joined     == JoinSegments(SelectSeq(parts, LAMBDA part : part # <<>>))
        isAbsolute == joined # <<>> /\ joined[1] = "/"
        segs       == NormalizeSegments(SplitPath(joined), <<>>, isAbsolute)
    IN  IF isAbsolute THEN <<"/">> \o JoinSegments(segs)
        ELSE IF segs = <<>> THEN <<".">>
        ELSE JoinSegments(segs)

\* path.parse(str) for a relative path that does not end in a separator
ParseDir(str) ==
    IF LastIndex(str, "/") = 0 THEN <<>> ELSE SubSeq(str, 1, LastIndex(str, "/") - 1)

ParseBase(str) == SubSeq(str, LastIndex(str, "/") + 1, Len(str))

\* the extension starts at the last dot of the base, unless that dot is its
\* first character or the base is '..'
ParseExt(str) ==
    LET base == ParseBase(str)
        dot  == LastIndex(base, ".")
    IN  IF dot <= 1 \/ base = <<".", ".">> THEN <<>> ELSE SubSeq(base, dot, Len(base))

ParseName(str) ==
    SubSeq(ParseBase(str), 1, Len(ParseBase(str)) - Len(ParseExt(str)))

\* relativePath.replace(/\\/g, '/')
NormalizeSeparators(str) == [k \in 1..Len(str) |-> IF str[k] = "\\" THEN "/" ELSE str[k]]

SrcMainJava == <<"s", "r", "c", "/", "m", "a", "i", "n", "/", "j", "a", "v", "a">>
SrcTestJava == <<"s", "r", "c", "/", "t", "e", "s", "t", "/", "j", "a", "v", "a">>
MainJava == <<"m", "a", "i", "n", "/", "j", "a", "v", "a">>
TestJava == <<"t", "e", "s", "t", "/", "j", "a", "v", "a">>
SrcMainKotlin == <<"s", "r", "c", "/", "m", "a", "i", "n", "/", "k", "o", "t", "l", "i", "n">>
SrcTestKotlin == <<"s", "r", "c", "/", "t", "e", "s", "t", "/", "k", "o", "t", "l", "i", "n">>
SuffixTest == <<"T", "e", "s", "t">>

\* lines 72-74: path.join('src', 'test', 'java', parsed.dir, parsed.base)
DefaultTestPath(normalizedPath) ==
    PathJoin(<<<<"s", "r", "c">>, <<"t", "e", "s", "t">>, <<"j", "a", "v", "a">>, ParseDir(normalizedPath), ParseBase(normalizedPath)>>)

\* a conversion that tries the rule without the src prefix first
ConvertMainJavaFirst(relativePath) ==
    LET normalizedPath == NormalizeSeparators(relativePath)
    IN  IF Includes(normalizedPath, MainJava)
        THEN ReplaceFirst(normalizedPath, MainJava, TestJava)
        ELSE IF Includes(normalizedPath, SrcMainKotlin)
        THEN ReplaceFirst(normalizedPath, SrcMainKotlin, SrcTestKotlin)
        ELSE DefaultTestPath(normalizedPath)

\* a conversion whose default keeps the file name only
ConvertDroppingDir(relativePath) ==
    LET normalizedPath == NormalizeSeparators(relativePath)
    IN  IF Includes(normalizedPath, SrcMainJava)
        THEN ReplaceFirst(normalizedPath, SrcMainJava, SrcTestJava)
        ELSE IF Includes(normalizedPath, MainJava)
        THEN ReplaceFirst(normalizedPath, MainJava, TestJava)
        ELSE IF Includes(normalizedPath, SrcMainKotlin)
        THEN ReplaceFirst(normalizedPath, SrcMainKotlin, SrcTestKotlin)
        ELSE PathJoin(<<<<"s", "r", "c">>, <<"t", "e", "s", "t">>, <<"j", "a", "v", "a">>, ParseBase(normalizedPath)>>)

\* convertToTestPath
ConvertToTestPath(relativePath) ==
    LET normalizedPath == NormalizeSeparators(relativePath)
    IN  IF Includes(normalizedPath, SrcMainJava)
        THEN ReplaceFirst(normalizedPath, SrcMainJava, SrcTestJava)
        ELSE IF Includes(normalizedPath, MainJava)
        THEN ReplaceFirst(normalizedPath, MainJava, TestJava)
        ELSE IF Includes(normalizedPath, SrcMainKotlin)
        THEN ReplaceFirst(normalizedPath, SrcMainKotlin, SrcTestKotlin)
        ELSE DefaultTestPath(normalizedPath)

\* a suffix step that appends in every case
AlwaysNeedsSuffix(name) == TRUE

\* line 43: !parsed.name.endsWith('Test')
NeedsSuffix(name) == ~EndsWith(name, SuffixTest)

\* lines 42-45
WithTestSuffix(path) ==
    IF NeedsSuffix(ParseName(path))
    THEN PathJoin(<<ParseDir(path), ParseName(path) \o SuffixTest \o ParseExt(path)>>)
    ELSE path

\* a resolver that never takes the suggested path
IgnoreSuggested(suggested) == FALSE

\* line 30: if (suggestedPath)
UseSuggested(suggested) == suggested # <<>>

\* workspaceFolder.uri.path
WorkspaceRoot == <<"/", "w", "s">>

\* vscode.Uri.joinPath(workspaceFolder.uri, p): the path of the new Uri
UriJoinPath(p) == PathJoin(<<WorkspaceRoot, p>>)

\* the prefixes of javaMatch (line 93), in the order the regular expression
\* tries them: src/main/java/, src/test/java/, java/
JavaPrefixes ==
    << SrcMainJava \o <<"/">>, SrcTestJava \o <<"/">>, <<"j", "a", "v", "a", "/">> >>

\* the prefix with which /(?:src\/(?:main|test)\/java\/|java\/)(.+)\// matches
\* str at offset k, <<>> when it does not match there: the prefix, then at
\* least one character, then a '/'
JavaMatchAt(str, k) ==
    LET fits(p) == /\ k + Len(p) <= Len(str)
                   /\ SubSeq(str, k + 1, k + Len(p)) = p
                   /\ LastIndex(str, "/") >= k + Len(p) + 2
    IN  IF \E n \in 1..Len(JavaPrefixes) : fits(JavaPrefixes[n])
        THEN JavaPrefixes[CHOOSE n \in 1..Len(JavaPrefixes) :
                              /\ fits(JavaPrefixes[n])
                              /\ \A m \in 1..(n - 1) : ~fits(JavaPrefixes[m])]
        ELSE <<>>

\* javaMatch[1], '' when the expression does not match (lines 92-96): the
\* leftmost match, its group running to the last '/' of the path
PackagePath(str) ==
    LET offsets == {k \in 0..Len(str) : JavaMatchAt(str, k) # <<>>}
    IN  IF offsets = {} THEN <<>>
        ELSE LET k == CHOOSE o \in offsets : \A o2 \in offsets : o <= o2
             IN  SubSeq(str, k + Len(JavaMatchAt(str, k)) + 1, LastIndex(str, "/") - 1)

\* packagePath.replace(/\//g, '.')
SlashesToDots(str) == [k \in 1..Len(str) |-> IF str[k] = "/" THEN "." ELSE str[k]]

\* normalizedPath.includes('/test/') || className.endsWith('Test') (lines 101-102)
IsTestFile(normalizedPath, className) ==
    \/ Includes(normalizedPath, <<"/", "t", "e", "s", "t", "/">>)
    \/ EndsWith(className, SuffixTest)

\* what parseJavaPath returns for the path of the uri relative to its
\* workspace folder (lines 86-106)
JavaFileInfo(relativePath) ==
    LET normalizedPath == NormalizeSeparators(relativePath)
        className == ParseName(normalizedPath)
    IN  [ threw |-> FALSE,
          packageName |-> SlashesToDots(PackagePath(normalizedPath)),
          className |-> className,
          isTestFile |-> IsTestFile(normalizedPath, className),
          relativePath |-> normalizedPath ]

\* the Error of line 83
NotInWorkspace ==
    [ threw |-> TRUE, packageName |-> <<>>, className |-> <<>>, isTestFile |-> FALSE,
      relativePath |-> <<>> ]

\* the relative paths of the source files: a directory prefix, a package
\* directory and a file name
SourceDirs ==
    { <<"s", "r", "c", "/", "m", "a", "i", "n", "/", "j", "a", "v", "a">>,
      <<"m", "a", "i", "n", "/", "j", "a", "v", "a">>,
      <<"s", "r", "c", "/", "m", "a", "i", "n", "/", "k", "o", "t", "l", "i", "n">>,
      <<"s", "r", "c", "/", "t", "e", "s", "t", "/", "j", "a", "v", "a">>,
      <<"a", "p", "p", "/", "s", "r", "c", "/", "m", "a", "i", "n", "/", "j", "a", "v", "a">>,
      <<"m", "a", "i", "n", "/", "j", "a", "v", "a", "/", "s", "r", "c", "/", "m", "a", "i", "n", "/", "j", "a", "v", "a">>,
      <<"d", "o", "m", "a", "i", "n", "/", "j", "a", "v", "a">>,
      <<"l", "i", "b">>,
      <<"t", "e", "s", "t", "/", "j", "a", "v", "a">>,
      <<"t", "e", "s", "t">>,
      <<"l", "a", "t", "e", "s", "t", "/", "j", "a", "v", "a">>,
      <<>> }

PackageDirs ==
    { <<>>,
      <<"c", "o", "m", "/", "e", "x", "a", "m", "p", "l", "e">> }

FileNames ==
    { <<"C", "a", "l", "c", "u", "l", "a", "t", "o", "r", ".", "j", "a", "v", "a">>,
      <<"C", "a", "l", "c", "u", "l", "a", "t", "o", "r", "T", "e", "s", "t", ".", "j", "a", "v", "a">>,
      <<"T", "e", "s", "t", ".", "j", "a", "v", "a">>,
      <<"T", "e", "s", "t", "s", ".", "k", "t">>,
      <<"a", ".", "b", ".", "j", "a", "v", "a">>,
      <<"M", "a", "k", "e", "f", "i", "l", "e">>,
      <<".", "e", "n", "v">> }

SourcePaths ==
    {PathJoin(<<dir, pkg, file>>) : dir \in SourceDirs, pkg \in PackageDirs, file \in FileNames}
        \cup { <<"s", "r", "c", "\\", "m", "a", "i", "n", "\\", "j", "a", "v", "a", "\\", "F", "o", "o", ".", "j", "a", "v", "a">> }

SuggestedPaths ==
    { <<>>,
      <<"c", "u", "s", "t", "o", "m", "/", "F", "o", "o", "S", "p", "e", "c", ".", "j", "a", "v", "a">>,
      <<"s", "r", "c", "/", "m", "a", "i", "n", "/", "j", "a", "v", "a", "/", "x", "/", "F", "o", "o", ".", "j", "a", "v", "a">> }

\* one call resolveTestPath(sourceUri, suggestedPath)
ResolveTestPath ==
    /\ testUri = <<>>
    /\ IF ~inWorkspace
       THEN /\ testUri' = <<"throw">>
            /\ UNCHANGED testPath
       ELSE IF UseSuggested(suggestedPath)
       THEN /\ testUri' = <<UriJoinPath(suggestedPath)>>
            /\ UNCHANGED testPath
       ELSE /\ testPath' = <<ConvertToTestPath(sourcePath)>>
            /\ testUri' = <<UriJoinPath(WithTestSuffix(ConvertToTestPath(sourcePath)))>>
    /\ UNCHANGED <<inWorkspace, sourcePath, suggestedPath, pathInfo, testInfo, notPathVars>>

\* one call parseJavaPath(uri)
ParseJavaPath ==
    /\ pathInfo = <<>>
    /\ pathInfo' = IF inWorkspace THEN <<JavaFileInfo(sourcePath)>> ELSE <<NotInWorkspace>>
    /\ UNCHANGED <<inWorkspace, sourcePath, suggestedPath, testPath, testUri, testInfo,
                   notPathVars>>

\* path.relative(workspaceFolder.uri.fsPath, uri.fsPath) for a Uri below the
\* workspace folder (line 86)
PathRelative(uriPath) == SubSeq(uriPath, Len(WorkspaceRoot) + 2, Len(uriPath))

\* getWorkspaceFolder(uri) finds the folder of a Uri that lies below it
BelowWorkspaceRoot(uriPath) ==
    /\ Len(uriPath) > Len(WorkspaceRoot) + 1
    /\ SubSeq(uriPath, 1, Len(WorkspaceRoot) + 1) = WorkspaceRoot \o <<"/">>

\* one call parseJavaPath(uri) with the Uri a call of resolveTestPath returned
ParseTestPath ==
    /\ testUri # <<>>
    /\ testUri # <<"throw">>
    /\ testInfo = <<>>
    /\ testInfo' = IF BelowWorkspaceRoot(testUri[1])
                   THEN <<JavaFileInfo(PathRelative(testUri[1]))>>
                   ELSE <<NotInWorkspace>>
    /\ UNCHANGED <<inWorkspace, sourcePath, suggestedPath, testPath, testUri, pathInfo,
                   notPathVars>>

(***************************************************************************)
(* The status bar: StatusBarManager of statusBar.ts.  A setter is one      *)
(* action; the callback of the success timer is one action.  The host's    *)
(* timers are the set of handles that setTimeout returned and that have    *)
(* neither fired nor been cleared.                                         *)
(***************************************************************************)
\* the message arguments of the setters: none, the empty string, a text
StatusMessages == {<<>>, <<"">>, <<"Generated: CalculatorTest.java">>}

\* message || fallback
MessageOr(message, fallback) ==
    IF message = <<>> \/ message = <<"">> THEN fallback ELSE message[1]

\* the number of setTimeout calls of a session
MaxTimeouts == 3

ReadyItem ==
    [ text |-> "$(beaker) Test Gen",
      tooltip |-> "Click to generate unit test for current Java file",
      backgroundColor |-> "undefined", color |-> "undefined" ]
ConnectingItem ==
    [ text |-> "$(sync~spin) Connecting...",
      tooltip |-> "Connecting to API server...",
      backgroundColor |-> "undefined", color |-> "undefined" ]
GeneratingItem ==
    [ text |-> "$(sync~spin) Generating...",
      tooltip |-> "Generating unit test...",
      backgroundColor |-> "undefined", color |-> "undefined" ]
AnalyzingItem ==
    [ text |-> "$(sync~spin) Analyzing...",
      tooltip |-> "Analyzing Java code...",
      backgroundColor |-> "undefined", color |-> "undefined" ]
SuccessItem(message) ==
    [ text |-> "$(check) Test Generated",
      tooltip |-> MessageOr(message, "Test file generated successfully"),
      backgroundColor |-> "undefined", color |-> "testing.iconPassed" ]
ErrorItem(message) ==
    [ text |-> "$(error) Test Gen Error",
      tooltip |-> MessageOr(message, "Test generation failed. Click to retry."),
      backgroundColor |-> "statusBarItem.errorBackground", color |-> "undefined" ]
DisconnectedItem(message) ==
    [ text |-> "$(warning) Disconnected",
      tooltip |-> MessageOr(message, "Cannot connect to API server. Check settings."),
      backgroundColor |-> "statusBarItem.warningBackground", color |-> "undefined" ]

\* a clearTimeout that forgets the handle and leaves the host's timer pending
ClearNothing(pending) == pending

\* clearTimeout(), lines 132-137: the host's pending timers after the call
ClearTimeout(pending) ==
    IF successTimeout # <<>> THEN pending \ {successTimeout[1]} ELSE pending

\* a setter without a timer: clearTimeout(), then the assignments
SetState(state, item, pending) ==
    /\ timeouts' = ClearTimeout(pending)
    /\ successTimeout' = <<>>
    /\ currentState' = state
    /\ statusBarItem' = item
    /\ UNCHANGED timeoutCount

\* setSuccess, lines 87-99: clearTimeout(), the assignments, setTimeout
SetSuccessState(message) ==
    /\ timeouts' = ClearTimeout(timeouts) \cup {timeoutCount + 1}
    /\ successTimeout' = <<timeoutCount + 1>>
    /\ timeoutCount' = timeoutCount + 1
    /\ currentState' = "success"
    /\ statusBarItem' = SuccessItem(message)

\* the callback of the success timer, lines 96-98: setReady()
SuccessTimeoutState(handle) ==
    /\ handle \in timeouts
    /\ firedTimeouts' = Append(firedTimeouts, handle)
    /\ SetState("ready", ReadyItem, timeouts \ {handle})

SetReady ==
    /\ SetState("ready", ReadyItem, timeouts)
    /\ UNCHANGED <<statusBarShown, firedTimeouts, notStatusVars>>

SetConnecting ==
    /\ SetState("connecting", ConnectingItem, timeouts)
    /\ UNCHANGED <<statusBarShown, firedTimeouts, notStatusVars>>

SetGenerating ==
    /\ SetState("generating", GeneratingItem, timeouts)
    /\ UNCHANGED <<statusBarShown, firedTimeouts, notStatusVars>>

SetAnalyzing ==
    /\ SetState("analyzing", AnalyzingItem, timeouts)
    /\ UNCHANGED <<statusBarShown, firedTimeouts, notStatusVars>>

SetSuccess(message) ==
    /\ timeoutCount < MaxTimeouts
    /\ SetSuccessState(message)
    /\ UNCHANGED <<statusBarShown, firedTimeouts, notStatusVars>>

SetError(message) ==
    /\ SetState("error", ErrorItem(message), timeouts)
    /\ UNCHANGED <<statusBarShown, firedTimeouts, notStatusVars>>

SetDisconnected(message) ==
    /\ SetState("disconnected", DisconnectedItem(message), timeouts)
    /\ UNCHANGED <<statusBarShown, firedTimeouts, notStatusVars>>

SuccessTimeout(handle) ==
    /\ SuccessTimeoutState(handle)
    /\ UNCHANGED <<statusBarShown, notStatusVars>>

\* dispose(), lines 142-145
Dispose ==
    /\ statusBarShown = "shown"
    /\ timeouts' = ClearTimeout(timeouts)
    /\ successTimeout' = <<>>
    /\ statusBarShown' = "disposed"
    /\ UNCHANGED <<currentState, statusBarItem, timeoutCount, firedTimeouts, notStatusVars>>

(***************************************************************************)
(* The generateTest command of generateTest.ts.  An invocation runs from   *)
(* one await to the next in one step; the outcome of the awaited operation *)
(* is the input of the step.  Two invocations may overlap: they share the  *)
(* status bar and, in the worst case, the test path.  The cancel button of *)
(* the progress notification can be pressed while the callback of          *)
(* withProgress runs.                                                      *)
(***************************************************************************)
Invocations == {1, 2}

\* how an invocation can have returned
GenReturned == {"notStarted", "cancelled", "declined", "failed", "finished"}

\* the awaits inside the callback of withProgress (lines 62-189)
GenInProgress ==
    {"readFile", "collectDependencies", "generateTest", "fileExists", "prompt",
     "createBackup", "saveTestFile", "openFile", "showInformation", "openFileAgain"}

GoTo(n, position) == genPc' = [genPc EXCEPT ![n] = position]

Called(n, state) == statusCalls' = [statusCalls EXCEPT ![n] = Append(@, state)]

NoStatusCall == UNCHANGED <<statusVars, statusCalls>>

notStatusGenerateVars ==
    <<scanVars, mergeVars, runVars, fragmentVars, classifyVars, pathVars, infoVars,
      formatVars, validateVars, webviewVars,
                  scenarioVars,
                  clientVars>>

\* statusBar.setGenerating(), line 54
CallSetGenerating(n) ==
    /\ SetState("generating", GeneratingItem, timeouts)
    /\ Called(n, "generating")
    /\ UNCHANGED <<statusBarShown, firedTimeouts>>

\* statusBar.setReady(); return;  (lines 70-71, 99-100, 122-123, 148-149)
ReturnReady(n, position) ==
    /\ SetState("ready", ReadyItem, timeouts)
    /\ Called(n, "ready")
    /\ GoTo(n, position)
    /\ UNCHANGED <<statusBarShown, firedTimeouts>>

\* statusBar.setSuccess(...), line 175
CallSetSuccess(n) ==
    /\ SetSuccessState(<<"Generated: CalculatorTest.java">>)
    /\ Called(n, "success")
    /\ UNCHANGED <<statusBarShown, firedTimeouts>>

\* a catch block that reports the error and leaves the status bar alone
CatchQuietly(n) ==
    /\ GoTo(n, "failed")
    /\ NoStatusCall

\* the catch block, lines 191-196
CatchGenerate(n) ==
    /\ SetState("error", ErrorItem(<<"error">>), timeouts)
    /\ Called(n, "error")
    /\ GoTo(n, "failed")
    /\ UNCHANGED <<statusBarShown, firedTimeouts>>

\* the call fileManager.saveTestFile(...), line 158
CallSaveTestFile(n) ==
    /\ fileOps' = Append(fileOps, [by |-> n, op |-> "saveTestFile"])
    /\ GoTo(n, "saveTestFile")

\* the targets of an invocation: no Uri and no active editor, a file that is
\* not a Java file, a Java file
Targets == {"none", "notJava", "java"}

\* lines 20-66: the command up to its first await
Invoke(n, target) ==
    /\ genPc[n] = "idle"
    /\ IF target # "java"
       THEN GoTo(n, "notStarted") /\ NoStatusCall
       ELSE IF ~configured
       THEN GoTo(n, "askConfigure") /\ NoStatusCall
       ELSE CallSetGenerating(n) /\ GoTo(n, "readFile")
    /\ UNCHANGED <<cancellationRequested, overwrite, configured, includeDependencies,
                   openAfterGeneration, testFileContent, backupFiles, fileOps,
                   notStatusGenerateVars>>

\* lines 37-47: the warning of a missing configuration has been answered
ConfigureAnswered(n) ==
    /\ genPc[n] = "askConfigure"
    /\ GoTo(n, "notStarted")
    /\ NoStatusCall
    /\ UNCHANGED <<cancellationRequested, overwrite, configured, includeDependencies,
                   openAfterGeneration, testFileContent, backupFiles, fileOps,
                   notStatusGenerateVars>>

\* the cancel button of the progress notification
RequestCancellation(n) ==
    /\ genPc[n] \in GenInProgress
    /\ ~cancellationRequested[n]
    /\ cancellationRequested' = [cancellationRequested EXCEPT ![n] = TRUE]
    /\ UNCHANGED <<genPc, overwrite, statusCalls, configured, includeDependencies,
                   openAfterGeneration, testFileContent, backupFiles, fileOps,
                   statusVars, notStatusGenerateVars>>

\* lines 66-96: readFile has answered; parseJavaPath; the first checkpoint
ReadFileDone(n, outcome) ==
    /\ genPc[n] = "readFile"
    /\ IF outcome \in {"throw", "notInWorkspace"}
       THEN CatchGenerate(n)
       ELSE IF cancellationRequested[n]
       THEN ReturnReady(n, "cancelled")
       ELSE /\ GoTo(n, IF includeDependencies THEN "collectDependencies" ELSE "generateTest")
            /\ NoStatusCall
    /\ UNCHANGED <<cancellationRequested, overwrite, configured, includeDependencies,
                   openAfterGeneration, testFileContent, backupFiles, fileOps,
                   notStatusGenerateVars>>

\* lines 90-119: collectDependencies has answered; the second checkpoint
DependenciesDone(n, ok) ==
    /\ genPc[n] = "collectDependencies"
    /\ IF ~ok
       THEN CatchGenerate(n)
       ELSE IF cancellationRequested[n]
       THEN ReturnReady(n, "cancelled")
       ELSE GoTo(n, "generateTest") /\ NoStatusCall
    /\ UNCHANGED <<cancellationRequested, overwrite, configured, includeDependencies,
                   openAfterGeneration, testFileContent, backupFiles, fileOps,
                   notStatusGenerateVars>>

\* lines 119-139: apiClient.generateTest has answered (it throws for a
\* failed request and for a response without success); the third checkpoint
GenerateTestDone(n, outcome) ==
    /\ genPc[n] = "generateTest"
    /\ IF outcome \in {"throw", "unsuccessful"}
       THEN CatchGenerate(n)
       ELSE IF cancellationRequested[n]
       THEN ReturnReady(n, "cancelled")
       ELSE GoTo(n, "fileExists") /\ NoStatusCall
    /\ UNCHANGED <<cancellationRequested, overwrite, configured, includeDependencies,
                   openAfterGeneration, testFileContent, backupFiles, fileOps,
                   notStatusGenerateVars>>

\* lines 139-158: fileExists has answered
FileExistsDone(n) ==
    /\ genPc[n] = "fileExists"
    /\ IF testFileContent # <<>>
       THEN GoTo(n, "prompt") /\ UNCHANGED fileOps
       ELSE CallSaveTestFile(n)
    /\ NoStatusCall
    /\ UNCHANGED <<cancellationRequested, overwrite, configured, includeDependencies,
                   openAfterGeneration, testFileContent, backupFiles,
                   notStatusGenerateVars>>

\* the answers to the overwrite prompt; "dismissed" is undefined
OverwriteAnswers == {"Overwrite", "Create Backup", "Cancel", "dismissed"}

\* a prompt whose 'Cancel' is taken for consent
PromptAnsweredAnyway(n, answer) ==
    /\ genPc[n] = "prompt"
    /\ overwrite' = [overwrite EXCEPT ![n] = answer]
    /\ IF answer = "Create Backup"
       THEN GoTo(n, "createBackup") /\ NoStatusCall /\ UNCHANGED fileOps
       ELSE CallSaveTestFile(n) /\ NoStatusCall
    /\ UNCHANGED <<cancellationRequested, configured, includeDependencies,
                   openAfterGeneration, testFileContent, backupFiles,
                   notStatusGenerateVars>>

\* lines 140-158: the overwrite prompt has been answered
PromptAnswered(n, answer) ==
    /\ genPc[n] = "prompt"
    /\ overwrite' = [overwrite EXCEPT ![n] = answer]
    /\ IF answer \in {"Cancel", "dismissed"}
       THEN ReturnReady(n, "declined") /\ UNCHANGED fileOps
       ELSE IF answer = "Create Backup"
       THEN GoTo(n, "createBackup") /\ NoStatusCall /\ UNCHANGED fileOps
       ELSE CallSaveTestFile(n) /\ NoStatusCall
    /\ UNCHANGED <<cancellationRequested, configured, includeDependencies,
                   openAfterGeneration, testFileContent, backupFiles,
                   notStatusGenerateVars>>

\* lines 153-158 and createBackup (sidebarProvider.ts:2617-2631): the backup
\* has answered: no file to copy, a copy written, or a failed read or write
CreateBackupDone(n, ok) ==
    /\ genPc[n] = "createBackup"
    /\ IF testFileContent = <<>>
       THEN CallSaveTestFile(n) /\ NoStatusCall /\ UNCHANGED backupFiles
       ELSE IF ~ok
       THEN CatchGenerate(n) /\ UNCHANGED <<backupFiles, fileOps>>
       ELSE /\ backupFiles' = Append(backupFiles, testFileContent[1])
            /\ fileOps' = fileOps \o <<[by |-> n, op |-> "writeBackup"],
                                       [by |-> n, op |-> "saveTestFile"]>>
            /\ GoTo(n, "saveTestFile")
            /\ NoStatusCall
    /\ UNCHANGED <<cancellationRequested, overwrite, configured, includeDependencies,
                   openAfterGeneration, testFileContent, notStatusGenerateVars>>

\* the content the server generated for an invocation
GeneratedContent(n) == IF n = 1 THEN "generated 1" ELSE "generated 2"

\* lines 158-178 and saveTestFile (sidebarProvider.ts:2542-2569): the save
\* has answered, with the file written or with success: false
SaveTestFileDone(n, ok) ==
    /\ genPc[n] = "saveTestFile"
    /\ IF ~ok
       THEN CatchGenerate(n) /\ UNCHANGED <<testFileContent, fileOps>>
       ELSE /\ testFileContent' = <<GeneratedContent(n)>>
            /\ fileOps' = Append(fileOps, [by |-> n, op |-> "writeFile"])
            /\ IF openAfterGeneration
               THEN GoTo(n, "openFile") /\ NoStatusCall
               ELSE CallSetSuccess(n) /\ GoTo(n, "showInformation")
    /\ UNCHANGED <<cancellationRequested, overwrite, configured, includeDependencies,
                   openAfterGeneration, backupFiles, notStatusGenerateVars>>

\* lines 171-178: openFile has answered
OpenFileDone(n, ok) ==
    /\ genPc[n] = "openFile"
    /\ IF ~ok
       THEN CatchGenerate(n)
       ELSE CallSetSuccess(n) /\ GoTo(n, "showInformation")
    /\ UNCHANGED <<cancellationRequested, overwrite, configured, includeDependencies,
                   openAfterGeneration, testFileContent, backupFiles, fileOps,
                   notStatusGenerateVars>>

\* lines 178-188: the information message has been answered
InformationAnswered(n, action) ==
    /\ genPc[n] = "showInformation"
    /\ GoTo(n, IF action = "Open File" THEN "openFileAgain" ELSE "finished")
    /\ NoStatusCall
    /\ UNCHANGED <<cancellationRequested, overwrite, configured, includeDependencies,
                   openAfterGeneration, testFileContent, backupFiles, fileOps,
                   notStatusGenerateVars>>

\* line 185: the second openFile has answered
OpenFileAgainDone(n, ok) ==
    /\ genPc[n] = "openFileAgain"
    /\ IF ~ok
       THEN CatchGenerate(n)
       ELSE GoTo(n, "finished") /\ NoStatusCall
    /\ UNCHANGED <<cancellationRequested, overwrite, configured, includeDependencies,
                   openAfterGeneration, testFileContent, backupFiles, fileOps,
                   notStatusGenerateVars>>

(***************************************************************************)
(* The script of the sidebar webview: the file, method and scenario        *)
(* workflow.  A handler is one action.  A click reaches its handler only   *)
(* when the button is enabled and not inside a hidden section; a message   *)
(* of the extension reaches the message handler at any time.  Of the DOM,  *)
(* the properties that guard a click or that a handler reads are kept.     *)
(***************************************************************************)
\* the files the extension reports, the method lists it extracts, the
\* scenario texts it generates and the texts the user types
FilePaths == {"/ws/A.java", "/ws/B.java"}
MethodLists == {<<>>, <<"add">>, <<"add", "sub">>}
GeneratedScenarios == {"generated"}
TypedScenarios == {"typed"}

\* the number of messages the script posts in a session
MaxPosts == 3

CanPost == Len(webviewPosts) < MaxPosts

\* updateSelectedMethods (lines 2218-2229): the names whose checkbox exists
\* and is checked, for the list boxes of the next state
SelectedIn(available, boxes) ==
    LET Pick[k \in 0..Len(available)] ==
            IF k = 0 THEN <<>>
            ELSE IF k <= Len(boxes) /\ boxes[k]
                 THEN Append(Pick[k - 1], available[k])
                 ELSE Pick[k - 1]
    IN  Pick[Len(available)]

UpdateSelectedMethods(boxes) ==
    /\ selectedMethods' = SelectedIn(availableMethods', boxes)
    /\ btnGenerateScenariosDisabled' = (SelectedIn(availableMethods', boxes) = <<>>)

\* a remove handler that leaves the Generate Test button as it is
ClickRemoveFileKeepingButton ==
    /\ ~selectedFileHidden
    /\ currentFilePath' = <<>>
    /\ currentScenarios' = ""
    /\ scenariosApproved' = FALSE
    /\ availableMethods' = <<>>
    /\ selectedMethods' = <<>>
    /\ selectedFileHidden' = TRUE
    /\ methodSelectionSectionHidden' = TRUE
    /\ scenarioSectionHidden' = TRUE
    /\ btnGenerateScenariosDisabled' = TRUE
    /\ UNCHANGED <<checkboxes, scenarioEditorValue, scenarioEditorDisabled, scenarioStatus,
                   btnApproveScenariosDisabled, btnRegenerateScenariosDisabled,
                   btnGenerateSelectedDisabled, webviewPosts, notWebviewVars>>

\* btnRemoveFile 'click' (lines 2180-2192)
ClickRemoveFile ==
    /\ ~selectedFileHidden
    /\ currentFilePath' = <<>>
    /\ currentScenarios' = ""
    /\ scenariosApproved' = FALSE
    /\ availableMethods' = <<>>
    /\ selectedMethods' = <<>>
    /\ selectedFileHidden' = TRUE
    /\ methodSelectionSectionHidden' = TRUE
    /\ scenarioSectionHidden' = TRUE
    /\ btnGenerateScenariosDisabled' = TRUE
    /\ btnGenerateSelectedDisabled' = TRUE
    /\ UNCHANGED <<checkboxes, scenarioEditorValue, scenarioEditorDisabled, scenarioStatus,
                   btnApproveScenariosDisabled, btnRegenerateScenariosDisabled,
                   webviewPosts, notWebviewVars>>

\* a checkbox 'change' (lines 2208-2213): the browser has toggled box k
ToggleCheckbox(k) ==
    /\ ~methodSelectionSectionHidden
    /\ k \in 1..Len(checkboxes)
    /\ checkboxes' = [checkboxes EXCEPT ![k] = ~checkboxes[k]]
    /\ UNCHANGED availableMethods
    /\ UpdateSelectedMethods(checkboxes')
    /\ UNCHANGED <<currentFilePath, scenariosApproved, currentScenarios, selectedFileHidden,
                   methodSelectionSectionHidden, scenarioSectionHidden, scenarioEditorValue,
                   scenarioEditorDisabled, scenarioStatus, btnApproveScenariosDisabled,
                   btnRegenerateScenariosDisabled, btnGenerateSelectedDisabled,
                   webviewPosts, notWebviewVars>>

\* btnSelectAll and btnDeselectAll 'click' (lines 2232-2247): every box that
\* exists for an index of availableMethods is set to checked
ClickSelect(checked) ==
    /\ ~methodSelectionSectionHidden
    /\ checkboxes' = [k \in 1..Len(checkboxes) |->
                         IF k <= Len(availableMethods) THEN checked ELSE checkboxes[k]]
    /\ UNCHANGED availableMethods
    /\ UpdateSelectedMethods(checkboxes')
    /\ UNCHANGED <<currentFilePath, scenariosApproved, currentScenarios, selectedFileHidden,
                   methodSelectionSectionHidden, scenarioSectionHidden, scenarioEditorValue,
                   scenarioEditorDisabled, scenarioStatus, btnApproveScenariosDisabled,
                   btnRegenerateScenariosDisabled, btnGenerateSelectedDisabled,
                   webviewPosts, notWebviewVars>>

\* btnGenerateScenarios 'click' (lines 2250-2258)
ClickGenerateScenarios ==
    /\ ~btnGenerateScenariosDisabled
    /\ CanPost
    /\ IF currentFilePath # <<>> /\ selectedMethods # <<>>
       THEN webviewPosts' = Append(webviewPosts,
                [command |-> "generateScenarios", filePath |-> currentFilePath[1],
                 selectedMethods |-> selectedMethods])
       ELSE UNCHANGED webviewPosts
    /\ UNCHANGED <<currentFilePath, scenariosApproved, currentScenarios, availableMethods,
                   selectedMethods, checkboxes, selectedFileHidden,
                   methodSelectionSectionHidden, scenarioSectionHidden, scenarioEditorValue,
                   scenarioEditorDisabled, scenarioStatus, btnApproveScenariosDisabled,
                   btnRegenerateScenariosDisabled, btnGenerateScenariosDisabled,
                   btnGenerateSelectedDisabled, notWebviewVars>>

\* btnApproveScenarios 'click' (lines 2262-2271)
ClickApproveScenarios ==
    /\ ~scenarioSectionHidden
    /\ ~btnApproveScenariosDisabled
    /\ scenariosApproved' = TRUE
    /\ currentScenarios' = scenarioEditorValue
    /\ scenarioStatus' = "Approved"
    /\ scenarioEditorDisabled' = TRUE
    /\ btnApproveScenariosDisabled' = TRUE
    /\ btnGenerateSelectedDisabled' = FALSE
    /\ UNCHANGED <<currentFilePath, availableMethods, selectedMethods, checkboxes,
                   selectedFileHidden, methodSelectionSectionHidden, scenarioSectionHidden,
                   scenarioEditorValue, btnRegenerateScenariosDisabled,
                   btnGenerateScenariosDisabled, webviewPosts, notWebviewVars>>

\* btnRegenerateScenarios 'click' (lines 2274-2287)
ClickRegenerateScenarios ==
    /\ ~scenarioSectionHidden
    /\ ~btnRegenerateScenariosDisabled
    /\ CanPost
    /\ IF currentFilePath # <<>>
       THEN /\ scenariosApproved' = FALSE
            /\ scenarioStatus' = "Draft"
            /\ scenarioEditorDisabled' = FALSE
            /\ btnApproveScenariosDisabled' = FALSE
            /\ btnGenerateSelectedDisabled' = TRUE
            /\ webviewPosts' = Append(webviewPosts,
                   [command |-> "generateScenarios", filePath |-> currentFilePath[1]])
       ELSE UNCHANGED <<scenariosApproved, scenarioStatus, scenarioEditorDisabled,
                        btnApproveScenariosDisabled, btnGenerateSelectedDisabled,
                        webviewPosts>>
    /\ UNCHANGED <<currentFilePath, currentScenarios, availableMethods, selectedMethods,
                   checkboxes, selectedFileHidden, methodSelectionSectionHidden,
                   scenarioSectionHidden, scenarioEditorValue,
                   btnRegenerateScenariosDisabled, btnGenerateScenariosDisabled,
                   notWebviewVars>>

\* scenarioEditor 'input' (lines 2290-2298): the user has typed text
InputScenario(text) ==
    /\ ~scenarioSectionHidden
    /\ ~scenarioEditorDisabled
    /\ scenarioEditorValue' = text
    /\ IF scenariosApproved
       THEN /\ scenariosApproved' = FALSE
            /\ scenarioStatus' = "Draft (Edited)"
            /\ btnApproveScenariosDisabled' = FALSE
            /\ btnGenerateSelectedDisabled' = TRUE
       ELSE UNCHANGED <<scenariosApproved, scenarioStatus, btnApproveScenariosDisabled,
                        btnGenerateSelectedDisabled>>
    /\ UNCHANGED <<currentFilePath, currentScenarios, availableMethods, selectedMethods,
                   checkboxes, selectedFileHidden, methodSelectionSectionHidden,
                   scenarioSectionHidden, scenarioEditorDisabled,
                   btnRegenerateScenariosDisabled, btnGenerateScenariosDisabled,
                   webviewPosts, notWebviewVars>>

\* btnGenerateSelected 'click' (lines 2301-2309)
ClickGenerateSelected ==
    /\ ~btnGenerateSelectedDisabled
    /\ CanPost
    /\ IF currentFilePath # <<>> /\ scenariosApproved
       THEN webviewPosts' = Append(webviewPosts,
                [command |-> "generateTestForFile", filePath |-> currentFilePath[1],
                 scenarios |-> scenarioEditorValue])
       ELSE UNCHANGED webviewPosts
    /\ UNCHANGED <<currentFilePath, scenariosApproved, currentScenarios, availableMethods,
                   selectedMethods, checkboxes, selectedFileHidden,
                   methodSelectionSectionHidden, scenarioSectionHidden, scenarioEditorValue,
                   scenarioEditorDisabled, scenarioStatus, btnApproveScenariosDisabled,
                   btnRegenerateScenariosDisabled, btnGenerateScenariosDisabled,
                   btnGenerateSelectedDisabled, notWebviewVars>>

\* message 'fileSelected' (lines 2376-2413)
FileSelected(filePath) ==
    /\ CanPost
    /\ currentFilePath' = <<filePath>>
    /\ selectedFileHidden' = FALSE
    /\ scenariosApproved' = FALSE
    /\ currentScenarios' = ""
    /\ availableMethods' = <<>>
    /\ selectedMethods' = <<>>
    /\ scenarioSectionHidden' = TRUE
    /\ scenarioEditorValue' = ""
    /\ scenarioEditorDisabled' = FALSE
    /\ scenarioStatus' = "Draft"
    /\ btnApproveScenariosDisabled' = FALSE
    /\ methodSelectionSectionHidden' = FALSE
    /\ checkboxes' = <<>>
    /\ btnGenerateScenariosDisabled' = TRUE
    /\ btnGenerateSelectedDisabled' = TRUE
    /\ webviewPosts' = Append(webviewPosts,
           [command |-> "extractMethods", filePath |-> filePath])
    /\ UNCHANGED <<btnRegenerateScenariosDisabled, notWebviewVars>>

\* message 'methodsLoaded' (lines 2415-2423) with renderMethods (2195-2216)
MethodsLoaded(list) ==
    /\ availableMethods' = list
    /\ IF list = <<>>
       THEN /\ checkboxes' = <<>>
            /\ UNCHANGED <<selectedMethods, btnGenerateScenariosDisabled>>
       ELSE /\ checkboxes' = [k \in 1..Len(list) |-> TRUE]
            /\ UpdateSelectedMethods(checkboxes')
    /\ UNCHANGED <<currentFilePath, scenariosApproved, currentScenarios, selectedFileHidden,
                   methodSelectionSectionHidden, scenarioSectionHidden, scenarioEditorValue,
                   scenarioEditorDisabled, scenarioStatus, btnApproveScenariosDisabled,
                   btnRegenerateScenariosDisabled, btnGenerateSelectedDisabled,
                   webviewPosts, notWebviewVars>>

\* the handler of 'scenarioGenerating' (lines 2425-2430)
OnScenarioGenerating ==
    /\ btnGenerateScenariosDisabled' = TRUE
    /\ btnRegenerateScenariosDisabled' = TRUE
    /\ UNCHANGED <<currentFilePath, scenariosApproved, currentScenarios, availableMethods,
                   selectedMethods, checkboxes, selectedFileHidden,
                   methodSelectionSectionHidden, scenarioSectionHidden, scenarioEditorValue,
                   scenarioEditorDisabled, scenarioStatus, btnApproveScenariosDisabled,
                   btnGenerateSelectedDisabled>>

\* message 'scenarioGenerating' (lines 2425-2430)
ScenarioGenerating ==
    /\ OnScenarioGenerating
    /\ UNCHANGED <<webviewPosts, notWebviewVars>>

\* the handler of 'scenarioGenerated' (lines 2432-2448)
OnScenarioGenerated(scenarios) ==
    /\ btnGenerateScenariosDisabled' = FALSE
    /\ btnRegenerateScenariosDisabled' = FALSE
    /\ scenarioSectionHidden' = FALSE
    /\ scenarioEditorValue' = scenarios
    /\ scenarioEditorDisabled' = FALSE
    /\ scenarioStatus' = "Draft"
    /\ btnApproveScenariosDisabled' = FALSE
    /\ btnGenerateSelectedDisabled' = TRUE
    /\ scenariosApproved' = FALSE
    /\ UNCHANGED <<currentFilePath, currentScenarios, availableMethods, selectedMethods,
                   checkboxes, selectedFileHidden, methodSelectionSectionHidden>>

\* message 'scenarioGenerated' (lines 2432-2448)
ScenarioGenerated(scenarios) ==
    /\ OnScenarioGenerated(scenarios)
    /\ UNCHANGED <<webviewPosts, notWebviewVars>>

\* the handler of 'scenarioError' (lines 2450-2456)
OnScenarioError ==
    /\ btnGenerateScenariosDisabled' = FALSE
    /\ btnRegenerateScenariosDisabled' = FALSE
    /\ UNCHANGED <<currentFilePath, scenariosApproved, currentScenarios, availableMethods,
                   selectedMethods, checkboxes, selectedFileHidden,
                   methodSelectionSectionHidden, scenarioSectionHidden, scenarioEditorValue,
                   scenarioEditorDisabled, scenarioStatus, btnApproveScenariosDisabled,
                   btnGenerateSelectedDisabled>>

\* message 'scenarioError' (lines 2450-2456)
ScenarioError ==
    /\ OnScenarioError
    /\ UNCHANGED <<webviewPosts, notWebviewVars>>

(***************************************************************************)
(* The scenario workflow with the extension's side.  The extension handles *)
(* the messages of the webview in the order they were posted               *)
(* (onDidReceiveMessage, lines 1371-1413); a handler that awaits leaves    *)
(* the next message free to be handled, so that several calls of           *)
(* _generateScenarios can wait for the server at once.  The messages the   *)
(* extension posts reach the script in the order they were posted.  Here   *)
(* webviewPosts holds the messages the extension has not yet received.     *)
(* A scenario text is kept as the file it was generated for and whether    *)
(* the user has edited it.                                                 *)
(***************************************************************************)
\* the calls of _generateScenarios that wait for the server at once, and the
\* messages of the extension that wait for the script at once
MaxCalls == 2
MaxQueued == 2

\* response.scenarios of a request for a file
ScenariosFor(filePath) ==
    IF filePath = "/ws/A.java" THEN "scenarios for A" ELSE "scenarios for B"

\* a scenario text after the user has typed in the editor
Edited(text) ==
    CASE text \in {"scenarios for A", "scenarios for A, edited"} -> "scenarios for A, edited"
      [] text \in {"scenarios for B", "scenarios for B, edited"} -> "scenarios for B, edited"
      [] OTHER -> "typed"

\* the file a scenario text was requested for, <<>> for a text that comes
\* from no response
RequestedFor(text) ==
    CASE text \in {"scenarios for A", "scenarios for A, edited"} -> <<"/ws/A.java">>
      [] text \in {"scenarios for B", "scenarios for B, edited"} -> <<"/ws/B.java">>
      [] OTHER -> <<>>

\* onDidReceiveMessage (lines 1371-1413) and, for 'generateScenarios',
\* _generateScenarios up to its first await (lines 1597-1610)
ReceiveMessage ==
    /\ webviewPosts # <<>>
    /\ webviewPosts' = Tail(webviewPosts)
    /\ IF Head(webviewPosts).command = "generateScenarios"
       THEN /\ Len(scenarioCalls) < MaxCalls
            /\ Len(toWebview) < MaxQueued
            /\ toWebview' = Append(toWebview, [command |-> "scenarioGenerating"])
            /\ scenarioCalls' = Append(scenarioCalls, Head(webviewPosts).filePath)
       ELSE UNCHANGED <<scenarioCalls, toWebview>>
    /\ UNCHANGED <<currentFilePath, scenariosApproved, currentScenarios, availableMethods,
                   selectedMethods, checkboxes, selectedFileHidden,
                   methodSelectionSectionHidden, scenarioSectionHidden, scenarioEditorValue,
                   scenarioEditorDisabled, scenarioStatus, btnApproveScenariosDisabled,
                   btnRegenerateScenariosDisabled, btnGenerateScenariosDisabled,
                   btnGenerateSelectedDisabled, notWebviewScenarioVars>>

\* _generateScenarios, lines 1610-1646: the file has been read and the server
\* has answered call k, or one of the two has failed
GenerateScenariosDone(k, ok) ==
    /\ k \in 1..Len(scenarioCalls)
    /\ Len(toWebview) < MaxQueued
    /\ toWebview' = Append(toWebview,
           IF ok THEN [command |-> "scenarioGenerated",
                       scenarios |-> ScenariosFor(scenarioCalls[k])]
                 ELSE [command |-> "scenarioError"])
    /\ scenarioCalls' = SubSeq(scenarioCalls, 1, k - 1)
                            \o SubSeq(scenarioCalls, k + 1, Len(scenarioCalls))
    /\ UNCHANGED <<webviewVars, notWebviewScenarioVars>>

\* window 'message' (lines 2340-2456): the script handles the next message
\* of the extension
HandleMessage ==
    /\ toWebview # <<>>
    /\ toWebview' = Tail(toWebview)
    /\ CASE Head(toWebview).command = "scenarioGenerating" -> OnScenarioGenerating
         [] Head(toWebview).command = "scenarioGenerated" ->
                OnScenarioGenerated(Head(toWebview).scenarios)
         [] Head(toWebview).command = "scenarioError" -> OnScenarioError
    /\ UNCHANGED <<webviewPosts, scenarioCalls, notWebviewScenarioVars>>

(***************************************************************************)
(* The API key: SettingsManager keeps a copy of the key of secret storage  *)
(* in cachedApiKey, ApiClient builds its axios instance, with its default  *)
(* headers, from getApiKey() when it is constructed and whenever           *)
(* onDidChange fires.  activate (extension.ts:19-26) constructs the        *)
(* SettingsManager, whose constructor starts the load of the key without   *)
(* awaiting it, and then the ApiClient, in one synchronous run.            *)
(***************************************************************************)
\* the values of a key; "" is no key
ApiKeys == {"", "k1", "k2"}

\* the requests sent and the calls of setApiKey in a session
MaxRequests == 2
MaxSetCalls == 2

\* createClient (part_002:44-68): ...(apiKey && { 'X-API-Key': apiKey })
CreateClient(apiKey) == IF apiKey # "" THEN <<apiKey>> ELSE <<>>

\* the listener the ApiClient registers (part_002:36-38), run by
\* onChangeEmitter.fire() with the cached key of the next state
FireOnDidChange == clientHeader' = CreateClient(cachedApiKey')

\* loadApiKeyFromSecretStorage (settings.ts:117-128): secretStorage.get has
\* answered, or thrown
LoadApiKeyDone(ok) ==
    /\ loadPc = "get"
    /\ loadPc' = IF ok THEN "loaded" ELSE "failed"
    /\ cachedApiKey' = IF ok /\ secretKey # "" THEN secretKey ELSE cachedApiKey
    /\ UNCHANGED <<secretKey, clientHeader, setCalls, sentRequests, notClientVars>>

\* setApiKey (settings.ts:200-217) with secret storage available: the key is
\* stored, or deleted when it is empty, then cached, then the event fires;
\* a failed store or delete throws
SetApiKey(apiKey, ok) ==
    /\ Len(setCalls) < MaxSetCalls
    /\ setCalls' = Append(setCalls, [key |-> apiKey, ok |-> ok])
    /\ IF ok
       THEN /\ secretKey' = apiKey
            /\ cachedApiKey' = apiKey
            /\ FireOnDidChange
       ELSE UNCHANGED <<secretKey, cachedApiKey, clientHeader>>
    /\ UNCHANGED <<loadPc, sentRequests, notClientVars>>

\* getApiKeyAsync (settings.ts:149-162), called when the sidebar sends the
\* settings to its webview: the cached key is refreshed, no event fires
GetApiKeyAsync(ok) ==
    /\ cachedApiKey' = IF ok /\ secretKey # "" THEN secretKey ELSE cachedApiKey
    /\ UNCHANGED <<secretKey, loadPc, clientHeader, setCalls, sentRequests, notClientVars>>

\* onDidChangeConfiguration for the extension's section (settings.ts:96-100)
ConfigurationChanged ==
    /\ UNCHANGED cachedApiKey
    /\ FireOnDidChange
    /\ UNCHANGED <<secretKey, loadPc, setCalls, sentRequests, notClientVars>>

\* a request through this.client (part_002:73 and after): it carries the
\* default headers of the instance
SendRequest ==
    /\ Len(sentRequests) < MaxRequests
    /\ sentRequests' = Append(sentRequests,
           [header |-> clientHeader, stored |-> secretKey, loaded |-> loadPc = "loaded"])
    /\ UNCHANGED <<secretKey, cachedApiKey, loadPc, clientHeader, setCalls, notClientVars>>

\* activate has constructed the SettingsManager and the ApiClient while
\* secret storage holds the key stored
Activated(stored) ==
    /\ secretKey = stored
    /\ cachedApiKey = ""
    /\ loadPc = "get"
    /\ clientHeader = CreateClient("")
    /\ setCalls = <<>>
    /\ sentRequests = <<>>

(***************************************************************************)
(* The values of the variables of an operation that is not running.        *)
(***************************************************************************)
ScanIdle ==
    /\ sourceCode = << <<>> >>
    /\ i = 0
    /\ braceCount = 0
    /\ inMethod = FALSE
    /\ currentMethod = <<>>
    /\ classStarted = FALSE
    /\ methods = <<>>

MergeIdle ==
    /\ existingCode = << <<>> >>
    /\ newCode = << <<>> >>
    /\ merged = <<>>

RunIdle ==
    /\ pc = "idle"
    /\ runKind = "none"
    /\ testClassName = <<>>
    /\ workspaceFolder = FALSE
    /\ rootFiles = {}
    /\ buildTool = "undetected"
    /\ findFilesCalls = 0
    /\ args = <<>>
    /\ child = "none"
    /\ signals = <<>>
    /\ stdout = <<>>
    /\ stderr = <<>>
    /\ timer = NoTimer
    /\ promise = [state |-> "none", error |-> "", output |-> <<>>]
    /\ posts = <<>>
    /\ parsed = <<>>
    /\ exitCode = <<>>

FragmentIdle ==
    /\ testCode = << <<>> >>
    /\ newTestMethods = << <<>> >>
    /\ mergedTest = <<>>

ClassifyIdle ==
    /\ result = <<>>
    /\ resultTool = "null"
    /\ verdict = <<>>

PathIdle ==
    /\ inWorkspace = FALSE
    /\ sourcePath = <<>>
    /\ suggestedPath = <<>>
    /\ testPath = <<>>
    /\ testUri = <<>>
    /\ pathInfo = <<>>
    /\ testInfo = <<>>

InfoIdle ==
    /\ infoPc = "idle"
    /\ classInfo = <<>>

FormatIdle ==
    /\ testOutput = <<>>
    /\ details = <<>>

ValidateIdle ==
    /\ candidate = <<>>
    /\ accepted = <<>>

\* the state of the webview when its script has been loaded (the
\* declarations of lines 2143-2148 and the attributes of the HTML)
WebviewLoaded ==
    /\ currentFilePath = <<>>
    /\ scenariosApproved = FALSE
    /\ currentScenarios = ""
    /\ availableMethods = <<>>
    /\ selectedMethods = <<>>
    /\ checkboxes = <<>>
    /\ selectedFileHidden = TRUE
    /\ methodSelectionSectionHidden = TRUE
    /\ scenarioSectionHidden = TRUE
    /\ scenarioEditorValue = ""
    /\ scenarioEditorDisabled = FALSE
    /\ scenarioStatus = "Draft"
    /\ btnApproveScenariosDisabled = FALSE
    /\ btnRegenerateScenariosDisabled = FALSE
    /\ btnGenerateScenariosDisabled = TRUE
    /\ btnGenerateSelectedDisabled = TRUE
    /\ webviewPosts = <<>>

WebviewIdle == WebviewLoaded

\* the status bar as its constructor leaves it (lines 24-34)
StatusConstructed ==
    /\ currentState = "ready"
    /\ statusBarItem = ReadyItem
    /\ statusBarShown = "shown"
    /\ successTimeout = <<>>
    /\ timeouts = {}
    /\ timeoutCount = 0
    /\ firedTimeouts = <<>>

StatusIdle == StatusConstructed

GenerateIdle ==
    /\ genPc = [n \in Invocations |-> "idle"]
    /\ cancellationRequested = [n \in Invocations |-> FALSE]
    /\ overwrite = [n \in Invocations |-> "none"]
    /\ statusCalls = [n \in Invocations |-> <<>>]
    /\ configured = TRUE
    /\ includeDependencies = TRUE
    /\ openAfterGeneration = TRUE
    /\ testFileContent = <<>>
    /\ backupFiles = <<>>
    /\ fileOps = <<>>

ScenarioIdle ==
    /\ scenarioCalls = <<>>
    /\ toWebview = <<>>

ClientIdle == Activated("")

(***************************************************************************)
(* SpecScan: extractMethods applied to every text of at most MaxLines      *)
(* lines of ScanLinePool.                                                  *)
(***************************************************************************)
InitScan ==
    /\ sourceCode \in Texts(ScanLinePool, MaxLines)
    /\ i = 0
    /\ braceCount = 0
    /\ inMethod = FALSE
    /\ currentMethod = <<>>
    /\ classStarted = FALSE
    /\ methods = <<>>
    /\ MergeIdle
    /\ RunIdle
    /\ FragmentIdle
    /\ ClassifyIdle
    /\ PathIdle
    /\ InfoIdle
    /\ FormatIdle
    /\ ValidateIdle
    /\ WebviewIdle
    /\ StatusIdle
    /\ GenerateIdle
    /\ ScenarioIdle
    /\ ClientIdle

NextScan == ScanLine

SpecScan == InitScan /\ [][NextScan]_vars

(***************************************************************************)
(* SpecMerge: mergeImports applied, up to MaxMerges times in succession,   *)
(* to every existing text and every fragment of the pools.                 *)
(***************************************************************************)
InitMerge ==
    /\ existingCode \in Texts(ExistingLinePool, MaxExistingLines)
    /\ newCode \in Texts(FragmentLinePool, MaxFragmentLines)
    /\ merged = <<>>
    /\ ScanIdle
    /\ RunIdle
    /\ FragmentIdle
    /\ ClassifyIdle
    /\ PathIdle
    /\ InfoIdle
    /\ FormatIdle
    /\ ValidateIdle
    /\ WebviewIdle
    /\ StatusIdle
    /\ GenerateIdle
    /\ ScenarioIdle
    /\ ClientIdle

NextMerge == Merge

SpecMerge == InitMerge /\ [][NextMerge]_vars

(***************************************************************************)
(* SpecFragment: mergeTestMethods applied to every existing unit of at     *)
(* most MaxTestLines lines of TestLinePool and every generated text.       *)
(***************************************************************************)
InitFragment ==
    /\ testCode \in Texts(TestLinePool, MaxTestLines)
    /\ newTestMethods \in GeneratedTexts
    /\ mergedTest = <<>>
    /\ ScanIdle
    /\ MergeIdle
    /\ RunIdle
    /\ ClassifyIdle
    /\ PathIdle
    /\ InfoIdle
    /\ FormatIdle
    /\ ValidateIdle
    /\ WebviewIdle
    /\ StatusIdle
    /\ GenerateIdle
    /\ ScenarioIdle
    /\ ClientIdle

NextFragment == MergeTests

SpecFragment == InitFragment /\ [][NextFragment]_vars

(***************************************************************************)
(* SpecRun: one test run, single-target or all-tests, in every workspace   *)
(* (with or without a folder, with any set of build descriptors).          *)
(* SpecRunFair adds what the event loop guarantees: a pending timer fires, *)
(* an answered await resumes.  The child is not obliged to do anything.    *)
(***************************************************************************)
InitRun ==
    /\ pc = "idle"
    /\ runKind = "none"
    /\ testClassName = <<>>
    /\ workspaceFolder \in BOOLEAN
    /\ rootFiles \in SUBSET (GradleDescriptors \cup MavenDescriptors)
    /\ buildTool = "undetected"
    /\ findFilesCalls = 0
    /\ args = <<>>
    /\ child = "none"
    /\ signals = <<>>
    /\ stdout = <<>>
    /\ stderr = <<>>
    /\ timer = NoTimer
    /\ promise = [state |-> "none", error |-> "", output |-> <<>>]
    /\ posts = <<>>
    /\ parsed = <<>>
    /\ exitCode = <<>>
    /\ ScanIdle
    /\ MergeIdle
    /\ FragmentIdle
    /\ ClassifyIdle
    /\ PathIdle
    /\ InfoIdle
    /\ FormatIdle
    /\ ValidateIdle
    /\ WebviewIdle
    /\ StatusIdle
    /\ GenerateIdle
    /\ ScenarioIdle
    /\ ClientIdle

NextRun ==
    \/ \E name \in TestNames : RunTest(name)
    \/ RunAllTests
    \/ DetectGradleDone
    \/ DetectMavenDone
    \/ \E chunk \in StdoutChunks : ChildStdout(chunk)
    \/ \E chunk \in StderrChunks : ChildStderr(chunk)
    \/ ChildError
    \/ \E code \in {0, 1, -1, -2} : ChildClose(code)
    \/ TimerFire
    \/ Continue

SpecRun == InitRun /\ [][NextRun]_vars

SpecRunFair ==
    /\ InitRun
    /\ [][NextRun]_vars
    /\ WF_vars(DetectGradleDone)
    /\ WF_vars(DetectMavenDone)
    /\ WF_vars(TimerFire)
    /\ WF_vars(Continue)

(***************************************************************************)
(* SpecClassify: _parseTestResult applied to every output of at most       *)
(* MaxOutputChunks chunks, for every value of buildTool.                   *)
(***************************************************************************)
InitClassify ==
    /\ result \in Outputs(MaxOutputChunks)
    /\ resultTool \in BuildTools
    /\ verdict = <<>>
    /\ ScanIdle
    /\ MergeIdle
    /\ RunIdle
    /\ FragmentIdle
    /\ PathIdle
    /\ InfoIdle
    /\ FormatIdle
    /\ ValidateIdle
    /\ WebviewIdle
    /\ StatusIdle
    /\ GenerateIdle
    /\ ScenarioIdle
    /\ ClientIdle

NextClassify == Classify

SpecClassify == InitClassify /\ [][NextClassify]_vars

(***************************************************************************)
(* SpecPath: resolveTestPath and parseJavaPath applied to every source     *)
(* path, with and without a suggested path, inside and outside a workspace *)
(* folder.                                                                 *)
(***************************************************************************)
InitPath ==
    /\ inWorkspace \in BOOLEAN
    /\ sourcePath \in SourcePaths
    /\ suggestedPath \in SuggestedPaths
    /\ testPath = <<>>
    /\ testUri = <<>>
    /\ pathInfo = <<>>
    /\ testInfo = <<>>
    /\ ScanIdle
    /\ MergeIdle
    /\ RunIdle
    /\ FragmentIdle
    /\ ClassifyIdle
    /\ InfoIdle
    /\ FormatIdle
    /\ ValidateIdle
    /\ WebviewIdle
    /\ StatusIdle
    /\ GenerateIdle
    /\ ScenarioIdle
    /\ ClientIdle

NextPath ==
    \/ ResolveTestPath
    \/ ParseJavaPath
    \/ ParseTestPath

SpecPath == InitPath /\ [][NextPath]_vars

(***************************************************************************)
(* SpecInfo: extractClassInfo applied to the Calculator unit and to every  *)
(* text of at most MaxInfoLines lines of InfoLinePool.                     *)
(***************************************************************************)
InitInfo ==
    /\ sourceCode \in Texts(InfoLinePool, MaxInfoLines) \cup {CalculatorUnit}
    /\ i = 0
    /\ braceCount = 0
    /\ inMethod = FALSE
    /\ currentMethod = <<>>
    /\ classStarted = FALSE
    /\ methods = <<>>
    /\ infoPc = "called"
    /\ classInfo = <<>>
    /\ MergeIdle
    /\ RunIdle
    /\ FragmentIdle
    /\ ClassifyIdle
    /\ PathIdle
    /\ FormatIdle
    /\ ValidateIdle
    /\ WebviewIdle
    /\ StatusIdle
    /\ GenerateIdle
    /\ ScenarioIdle
    /\ ClientIdle

NextInfo ==
    \/ ExtractClassInfo
    \/ infoPc = "scanning" /\ ScanLine
    \/ ExtractClassInfoReturn

SpecInfo == InitInfo /\ [][NextInfo]_vars

(***************************************************************************)
(* SpecFormat: _formatTestOutput applied to outputs of up to               *)
(* MaxRelevantLines relevant and MaxOtherLines other lines.                *)
(***************************************************************************)
InitFormat ==
    /\ testOutput \in FormatOutputs
    /\ details = <<>>
    /\ ScanIdle
    /\ MergeIdle
    /\ RunIdle
    /\ FragmentIdle
    /\ ClassifyIdle
    /\ PathIdle
    /\ InfoIdle
    /\ ValidateIdle
    /\ WebviewIdle
    /\ StatusIdle
    /\ GenerateIdle
    /\ ScenarioIdle
    /\ ClientIdle

NextFormat == Format

SpecFormat == InitFormat /\ [][NextFormat]_vars

(***************************************************************************)
(* SpecValidate: _validateTestClassName applied to every candidate name.   *)
(***************************************************************************)
InitValidate ==
    /\ candidate \in CandidateNames
    /\ accepted = <<>>
    /\ ScanIdle
    /\ MergeIdle
    /\ RunIdle
    /\ FragmentIdle
    /\ ClassifyIdle
    /\ PathIdle
    /\ InfoIdle
    /\ FormatIdle
    /\ WebviewIdle
    /\ StatusIdle
    /\ GenerateIdle
    /\ ScenarioIdle
    /\ ClientIdle

NextValidate == Validate

SpecValidate == InitValidate /\ [][NextValidate]_vars

(***************************************************************************)
(* SpecWebview: the webview script from its load on, under every sequence  *)
(* of user actions and extension messages that posts at most MaxPosts      *)
(* messages.                                                               *)
(***************************************************************************)
InitWebview ==
    /\ WebviewLoaded
    /\ ScanIdle
    /\ MergeIdle
    /\ RunIdle
    /\ FragmentIdle
    /\ ClassifyIdle
    /\ PathIdle
    /\ InfoIdle
    /\ FormatIdle
    /\ ValidateIdle
    /\ StatusIdle
    /\ GenerateIdle
    /\ ScenarioIdle
    /\ ClientIdle

NextWebview ==
    \/ ClickRemoveFile
    \/ \E k \in 1..2 : ToggleCheckbox(k)
    \/ \E checked \in BOOLEAN : ClickSelect(checked)
    \/ ClickGenerateScenarios
    \/ ClickApproveScenarios
    \/ ClickRegenerateScenarios
    \/ \E text \in TypedScenarios : InputScenario(text)
    \/ ClickGenerateSelected
    \/ \E filePath \in FilePaths : FileSelected(filePath)
    \/ \E list \in MethodLists : MethodsLoaded(list)
    \/ ScenarioGenerating
    \/ \E scenarios \in GeneratedScenarios : ScenarioGenerated(scenarios)
    \/ ScenarioError

SpecWebview == InitWebview /\ [][NextWebview]_vars

(***************************************************************************)
(* SpecStatus: the status bar under every sequence of setter calls, with   *)
(* the success timers firing whenever they are pending.                    *)
(***************************************************************************)
InitStatus ==
    /\ StatusConstructed
    /\ ScanIdle
    /\ MergeIdle
    /\ RunIdle
    /\ FragmentIdle
    /\ ClassifyIdle
    /\ PathIdle
    /\ InfoIdle
    /\ FormatIdle
    /\ ValidateIdle
    /\ WebviewIdle
    /\ GenerateIdle
    /\ ScenarioIdle
    /\ ClientIdle

NextStatus ==
    \/ SetReady
    \/ SetConnecting
    \/ SetGenerating
    \/ SetAnalyzing
    \/ \E message \in StatusMessages : SetSuccess(message)
    \/ \E message \in StatusMessages : SetError(message)
    \/ \E message \in StatusMessages : SetDisconnected(message)
    \/ \E handle \in 1..MaxTimeouts : SuccessTimeout(handle)
    \/ Dispose

SpecStatus == InitStatus /\ [][NextStatus]_vars

(***************************************************************************)
(* SpecGenerate: up to two overlapping invocations of the generateTest     *)
(* command, under every setting, with and without a file at the test       *)
(* path, with every outcome of every awaited operation, and with the       *)
(* success timers of the status bar.                                       *)
(***************************************************************************)
InitGenerate ==
    /\ genPc = [n \in Invocations |-> "idle"]
    /\ cancellationRequested = [n \in Invocations |-> FALSE]
    /\ overwrite = [n \in Invocations |-> "none"]
    /\ statusCalls = [n \in Invocations |-> <<>>]
    /\ configured \in BOOLEAN
    /\ includeDependencies \in BOOLEAN
    /\ openAfterGeneration \in BOOLEAN
    /\ testFileContent \in {<<>>, <<"existing">>}
    /\ backupFiles = <<>>
    /\ fileOps = <<>>
    /\ StatusConstructed
    /\ ScanIdle
    /\ MergeIdle
    /\ RunIdle
    /\ FragmentIdle
    /\ ClassifyIdle
    /\ PathIdle
    /\ InfoIdle
    /\ FormatIdle
    /\ ValidateIdle
    /\ WebviewIdle
    /\ ScenarioIdle
    /\ ClientIdle

NextGenerate ==
    \/ \E n \in Invocations, target \in Targets : Invoke(n, target)
    \/ \E n \in Invocations : ConfigureAnswered(n)
    \/ \E n \in Invocations : RequestCancellation(n)
    \/ \E n \in Invocations, outcome \in {"throw", "notInWorkspace", "ok"} :
           ReadFileDone(n, outcome)
    \/ \E n \in Invocations, ok \in BOOLEAN : DependenciesDone(n, ok)
    \/ \E n \in Invocations, outcome \in {"throw", "unsuccessful", "success"} :
           GenerateTestDone(n, outcome)
    \/ \E n \in Invocations : FileExistsDone(n)
    \/ \E n \in Invocations, answer \in OverwriteAnswers : PromptAnswered(n, answer)
    \/ \E n \in Invocations, ok \in BOOLEAN : CreateBackupDone(n, ok)
    \/ \E n \in Invocations, ok \in BOOLEAN : SaveTestFileDone(n, ok)
    \/ \E n \in Invocations, ok \in BOOLEAN : OpenFileDone(n, ok)
    \/ \E n \in Invocations, action \in {"Open File", "Show Analysis", "dismissed"} :
           InformationAnswered(n, action)
    \/ \E n \in Invocations, ok \in BOOLEAN : OpenFileAgainDone(n, ok)
    \/ \E handle \in 1..MaxTimeouts : SuccessTimeout(handle)

SpecGenerate == InitGenerate /\ [][NextGenerate]_vars

(***************************************************************************)
(* SpecScenario: the script of the webview together with the extension's   *)
(* side of the scenario requests.  A file is selected and its methods are  *)
(* reported at any time; the scenario messages are those the extension     *)
(* posts.                                                                  *)
(***************************************************************************)
InitScenario ==
    /\ WebviewLoaded
    /\ ScanIdle
    /\ MergeIdle
    /\ RunIdle
    /\ FragmentIdle
    /\ ClassifyIdle
    /\ PathIdle
    /\ InfoIdle
    /\ FormatIdle
    /\ ValidateIdle
    /\ StatusIdle
    /\ GenerateIdle
    /\ ScenarioIdle
    /\ ClientIdle

\* the extension has received every message the script has posted
Received == webviewPosts = <<>>

\* the user's actions and the reports of the extension happen when the
\* extension has received the messages of the script
NextScenario ==
    \/ Received /\ ClickRemoveFile
    \/ Received /\ \E checked \in BOOLEAN : ClickSelect(checked)
    \/ Received /\ ClickGenerateScenarios
    \/ Received /\ ClickApproveScenarios
    \/ Received /\ ClickRegenerateScenarios
    \/ Received /\ InputScenario(Edited(scenarioEditorValue))
    \/ Received /\ ClickGenerateSelected
    \/ Received /\ \E filePath \in FilePaths : FileSelected(filePath)
    \/ Received /\ \E list \in {<<>>, <<"add">>} : MethodsLoaded(list)
    \/ ReceiveMessage
    \/ \E k \in 1..MaxCalls, ok \in BOOLEAN : GenerateScenariosDone(k, ok)
    \/ HandleMessage

SpecScenario == InitScenario /\ [][NextScenario]_vars

(***************************************************************************)
(* SpecClient: the extension is activated with any key, or none, in secret *)
(* storage; then the load answers, keys are saved from the sidebar, the    *)
(* configuration changes and requests are sent, in any order.              *)
(***************************************************************************)
InitClient ==
    /\ \E stored \in ApiKeys : Activated(stored)
    /\ ScanIdle
    /\ MergeIdle
    /\ RunIdle
    /\ FragmentIdle
    /\ ClassifyIdle
    /\ PathIdle
    /\ InfoIdle
    /\ FormatIdle
    /\ ValidateIdle
    /\ WebviewIdle
    /\ StatusIdle
    /\ GenerateIdle
    /\ ScenarioIdle

NextClient ==
    \/ \E ok \in BOOLEAN : LoadApiKeyDone(ok)
    \/ \E apiKey \in ApiKeys, ok \in BOOLEAN : SetApiKey(apiKey, ok)
    \/ \E ok \in BOOLEAN : GetApiKeyAsync(ok)
    \/ ConfigurationChanged
    \/ SendRequest

SpecClient == InitClient /\ [][NextClient]_vars

(***************************************************************************)
(* The test runner: _executeCommand, _runTest, _runAllTests.               *)
(***************************************************************************)

\* C1: the timer of a call is set to 300,000 ms; when it expires while the
\* call is still pending (the process has neither closed nor failed), the
\* child is sent SIGTERM and the call rejects with the timeout error; a call
\* rejected by the timeout is never changed afterwards and its run never
\* posts a result.
C1_TimeoutRejects ==
    [][ /\ timer'.state # "none" => timer'.delay = 300000
        /\ (timer.state = "pending" /\ timer'.state = "fired" /\ promise.state = "pending")
            => /\ promise' = Rejected(MsgTimedOut)
               /\ signals' = Append(signals, "SIGTERM")
        /\ (promise = Rejected(MsgTimedOut))
            => /\ promise' = promise
               /\ \A k \in 1..Len(posts') : posts'[k].command # "testResult"
      ]_vars

\* the timeout rejected the call, the child closed afterwards, and the run
\* ended with the timeout error
C1_Witness ==
    /\ timer.state = "fired"
    /\ promise = Rejected(MsgTimedOut)
    /\ signals = <<"SIGTERM">>
    /\ child = "exited"
    /\ stdout # <<>>
    /\ posts = <<PostRunning, PostError(MsgTimedOut)>>

\* C2: whenever the call has settled (resolved or rejected), the child is no
\* longer running and no timer of the invocation is still pending.
C2_CleanedUpWhenSettled ==
    promise.state \in {"resolved", "rejected"}
        => child # "running" /\ timer.state # "pending"

\* the safety part of C3
C3_Lifecycle ==
    /\ pc = "idle" => posts = <<>>
    /\ pc # "idle" => Len(posts) >= 1 /\ posts[1] = PostRunning
    /\ Len(posts) <= 2
    /\ pc = "done" <=> Len(posts) = 2
    /\ Len(posts) = 2 =>
          \/ /\ posts[2].command = "testResult"
             /\ child = "exited"
             /\ promise.state = "resolved"
             /\ parsed = <<ParseTestResult(promise.output, buildTool)>>
             /\ posts[2] = PostResult(parsed[1])
          \/ /\ posts[2].command = "testError"
             /\ parsed = <<>>
             /\ promise.state # "resolved"
    /\ Len(posts) < 2 => parsed = <<>>

\* C3: a run posts testRunning first and then exactly one of testResult and
\* testError; testResult only after the process closed and its output was
\* classified; a rejected call (timeout, launch error) ends in testError with
\* no classification.  Every started run reaches its terminal post.
C3_RunLifecycle ==
    /\ []C3_Lifecycle
    /\ (pc # "idle") ~> (pc = "done")

\* a run that ended with a classified result
C3_Witness ==
    /\ pc = "done"
    /\ posts = <<PostRunning, PostResult(FALSE)>>
    /\ child = "exited"
    /\ timer.state = "pending"

\* C4: a single-target run whose name fails validation ends at once in
\* testError with the invalid-name message: no findFiles call, no detected
\* tool, no argument list, no child, no timer.
C4_InvalidNameNeverLaunches ==
    (runKind = "single" /\ ~ValidateTestClassName(testClassName))
        => /\ pc = "done"
           /\ posts = <<PostRunning, PostError(MsgInvalidName)>>
           /\ findFilesCalls = 0
           /\ buildTool = "undetected"
           /\ args = <<>>
           /\ child = "none"
           /\ timer = NoTimer
           /\ promise.state = "none"

\* a run refused for the length of its name alone, in a workspace where a
\* build could have been launched
C4_Witness ==
    /\ runKind = "single"
    /\ ValidPattern(testClassName)
    /\ Len(testClassName) > MaxNameLength
    /\ workspaceFolder
    /\ rootFiles # {}
    /\ pc = "done"

(***************************************************************************)
(* The scanner: extractMethods.                                            *)
(***************************************************************************)

\* the nesting depth behind line k, counting the boundary characters of
\* every line but blank and comment lines
RECURSIVE DepthAfter(_, _)
DepthAfter(code, k) ==
    IF k = 0 THEN 0
    ELSE DepthAfter(code, k - 1)
             + (IF IsBlankOrComment(code[k]) THEN 0 ELSE NetBraces(code[k]))

\* a line that begins a statement, not a declaration
IsStatement(line) == line # <<>> /\ line[1] \in {"return", "if"}

\* line k declares a member: it lies directly in the unit body, is no
\* statement, and matches the member-declaration pattern with a result type
\* other than its name
IsMemberDeclaration(code, k) ==
    /\ DepthAfter(code, k - 1) = 1
    /\ ~IsBlankOrComment(code[k])
    /\ ~IsClassStart(code[k])
    /\ ~IsStatement(code[k])
    /\ MethodMatches(code[k])
    /\ MatchReturnType(code[k]) # MatchName(code[k])

\* a unit whose boundary characters are balanced: it opens with its one
\* unit-opening line, the depth returns to zero at the end and not before,
\* every block opened directly in the unit body is a member's body, and no
\* statement stands directly in the unit body
IsBalancedUnit(code) ==
    /\ IsClassStart(code[1])
    /\ \A k \in 2..Len(code) : ~IsClassStart(code[k])
    /\ \A k \in 1..(Len(code) - 1) : DepthAfter(code, k) >= 1
    /\ DepthAfter(code, Len(code)) = 0
    /\ \A k \in 2..Len(code) :
          /\ (DepthAfter(code, k - 1) = 1 /\ DepthAfter(code, k) > 1)
                 => IsMemberDeclaration(code, k)
          /\ DepthAfter(code, k - 1) = 1 => ~IsStatement(code[k])

\* the lines that declare members, in text order
DeclarationLines(code) == {k \in 1..Len(code) : IsMemberDeclaration(code, k)}

\* the records lie in order, one behind the other
Ordered(ms) ==
    /\ \A k \in 1..Len(ms) : ms[k].startLine <= ms[k].endLine
    /\ \A k \in 1..(Len(ms) - 1) : ms[k].endLine < ms[k + 1].startLine

\* C5: for a balanced unit, extractMethods returns exactly one record per
\* member declaration, in declaration order (the k-th record starts at the
\* k-th declaration line and bears its name), with startLine <= endLine and
\* ranges that do not overlap.
C5_OneRecordPerMember ==
    (ScanDone /\ IsBalancedUnit(sourceCode))
        => /\ Len(methods) = Cardinality(DeclarationLines(sourceCode))
           /\ \A k \in 1..Len(methods) :
                 /\ methods[k].startLine \in DeclarationLines(sourceCode)
                 /\ methods[k].name = MatchName(sourceCode[methods[k].startLine])
           /\ Ordered(methods)

\* C6: at every point of every scan, of any text, each record has
\* startLine <= endLine and ends before the next record starts.
C6_RangesOrdered == Ordered(methods)

\* a finished scan of a text that is not balanced, with two records, the
\* first of which ends on the line it starts on
C6_Witness ==
    /\ ScanDone
    /\ DepthAfter(sourceCode, Len(sourceCode)) # 0
    /\ Len(methods) = 2
    /\ methods[1].startLine = methods[1].endLine

\* C7: no record, emitted or being tracked, has a returnType equal to its
\* name.
C7_NoConstructorEmitted ==
    /\ \A k \in 1..Len(methods) : methods[k].returnType # methods[k].name
    /\ \A k \in 1..Len(currentMethod) : currentMethod[k].returnType # currentMethod[k].name

\* a finished scan that tried, right behind the unit-opening line, a
\* declaration whose result type is its name, dropped it, and emitted a
\* later member
C7_Witness ==
    /\ ScanDone
    /\ Len(sourceCode) >= 3
    /\ IsClassStart(sourceCode[1])
    /\ MethodMatches(sourceCode[2])
    /\ MatchReturnType(sourceCode[2]) = MatchName(sourceCode[2])
    /\ Len(methods) = 1
    /\ methods[1].startLine = 3

(***************************************************************************)
(* The directive merger: extractImports, mergeImports.                     *)
(***************************************************************************)

\* no directive occurs twice
NoDuplicates(imports) ==
    \A j, k \in 1..Len(imports) : imports[j] = imports[k] => j = k

\* C8: merging the same fragment a second time changes nothing: the text
\* after two merges is the text after one, and so are its directives.
C8_MergeIdempotent ==
    Len(merged) >= 2
        => /\ merged[2] = merged[1]
           /\ ExtractImports(merged[2]) = ExtractImports(merged[1])

\* C9: if the existing text holds no directive twice, the merged text holds
\* no directive twice, whatever the fragment.
C9_NoDuplicateDirectives ==
    (Len(merged) >= 1 /\ NoDuplicates(ExtractImports(existingCode)))
        => NoDuplicates(ExtractImports(merged[1]))

\* the first unit-opening line of a text, 0 when there is none
UnitOpeningLine(code) ==
    IF \E k \in 1..Len(code) : IsUnitOpening(code[k])
    THEN CHOOSE k \in 1..Len(code) :
             IsUnitOpening(code[k]) /\ \A j \in 1..(k - 1) : ~IsUnitOpening(code[j])
    ELSE 0

\* the directive lines of a text in front of line u
DirectiveLinesBefore(code, u) == {k \in 1..(u - 1) : IsImportLine(code[k])}

\* C10: when there are directives to add to a text with a unit-opening line,
\* the merged text is the existing text with the new directive lines placed
\* right behind the last directive line in front of the unit-opening line,
\* or, when the text has no directive line, right in front of the
\* unit-opening line.
C10_InsertPosition ==
    LET u    == UnitOpeningLine(existingCode)
        dirs == DirectiveLinesBefore(existingCode, u)
        add  == ImportLines(ImportsToAdd(existingCode, newCode))
    IN  (/\ Len(merged) >= 1
         /\ add # <<>>
         /\ u > 0
         /\ dirs # {} \/ \A k \in 1..Len(existingCode) : ~IsImportLine(existingCode[k]))
            => IF dirs # {}
               THEN merged[1] = Splice(existingCode,
                                       CHOOSE k \in dirs : \A j \in dirs : j <= k, add)
               ELSE merged[1] = Splice(existingCode, u - 1, add)

(***************************************************************************)
(* The fragment merger: mergeTestMethods.                                  *)
(***************************************************************************)

RECURSIVE DepthFrom(_, _, _)
\* the depth behind line k, counting the boundary characters of the lines
\* from line u on
DepthFrom(code, u, k) ==
    IF k < u THEN 0 ELSE DepthFrom(code, u, k - 1) + NetBraces(code[k])

\* the final top-level closing boundary of a text: the last line, from the
\* unit-opening line on, that holds a closing boundary character and behind
\* which the depth is zero; 0 when the text has none
FinalBoundary(code) ==
    LET u       == UnitOpeningLine(code)
        closing == {k \in 1..Len(code) :
                       /\ u > 0
                       /\ k >= u
                       /\ "}" \in Range(code[k])
                       /\ DepthFrom(code, u, k) = 0}
    IN  IF closing = {} THEN 0 ELSE CHOOSE k \in closing : \A j \in closing : j <= k

\* the tokens of a text, in order
TokenList(code) == [k \in 1..Len(TokensFrom(code, 1)) |-> TokensFrom(code, 1)[k].tok]

\* the new member text of a generated text: from its first member marker up
\* to its trailing boundary, or all of it when it has no marker in front of
\* a trailing boundary
NewMemberTokens(fragment) ==
    LET t       == TokenList(fragment)
        markers == {k \in 1..(Len(t) - 1) : t[k] = "@Test"}
    IN  IF t # <<>> /\ t[Len(t)] = "}" /\ markers # {}
        THEN SubSeq(t, CHOOSE k \in markers : \A j \in markers : k <= j, Len(t) - 1)
        ELSE t

ContainsIgnoringCase(str, keyword) ==
    \E k \in 0..(Len(str) - Len(keyword)) :
        \A j \in 1..Len(keyword) : ToLowerChar(str[k + j]) = keyword[j]

\* the rows of the keyword table
PositiveSignal(str, tool) ==
    IF tool = "gradle"
    THEN \/ ContainsIgnoringCase(str, KwBuildSuccessful)
         \/ /\ ContainsIgnoringCase(str, KwTest)
            /\ ~ContainsIgnoringCase(str, KwFailed)
            /\ ~ContainsIgnoringCase(str, KwFailure)
    ELSE ContainsIgnoringCase(str, KwBuildSuccess)

NegativeSignals(tool) ==
    IF tool = "gradle" THEN {KwBuildFailed, KwTestFailed, KwFailures}
    ELSE {KwBuildFailure, KwTestsRun, KwFailures}

NegativeSignal(str, tool) ==
    \E keyword \in NegativeSignals(tool) : ContainsIgnoringCase(str, keyword)

\* C12, as claimed: for tool A and tool B the verdict is true exactly when
\* no negative signal of the tool's row is present; a negative signal makes
\* it false also when a positive signal is present.
C12_NegativeOverrides ==
    (verdict # <<>> /\ resultTool \in {"gradle", "maven"})
        => (verdict[1] <=> ~NegativeSignal(result, resultTool))

\* C12, amended: a positive signal of the tool's row makes the verdict true,
\* also when a negative signal is present; without a positive signal the
\* verdict is true exactly when no negative signal is present.
C12_PositiveOverrides ==
    (verdict # <<>> /\ resultTool \in {"gradle", "maven"})
        => (verdict[1] <=> \/ PositiveSignal(result, resultTool)
                           \/ ~NegativeSignal(result, resultTool))

\* a build of tool B that passed: its output holds the test summary line
\* (a negative signal) and the success line
C12_Witness ==
    /\ verdict = <<TRUE>>
    /\ resultTool = "maven"
    /\ ContainsIgnoringCase(result, KwTestsRun)
    /\ ContainsIgnoringCase(result, KwBuildSuccess)

\* C13: for tool A an output with BUILD SUCCESSFUL is classified true and one
\* with BUILD FAILED and no BUILD SUCCESSFUL false; for tool B an output with
\* BUILD SUCCESS is classified true and one with BUILD FAILURE and no BUILD
\* SUCCESS false; in any case of the letters.
C13_CanonicalOutcomes ==
    verdict # <<>> =>
        /\ (resultTool = "gradle" /\ ContainsIgnoringCase(result, KwBuildSuccessful))
               => verdict[1] = TRUE
        /\ (resultTool = "gradle" /\ ContainsIgnoringCase(result, KwBuildFailed)
                /\ ~ContainsIgnoringCase(result, KwBuildSuccessful))
               => verdict[1] = FALSE
        /\ (resultTool = "maven" /\ ContainsIgnoringCase(result, KwBuildSuccess))
               => verdict[1] = TRUE
        /\ (resultTool = "maven" /\ ContainsIgnoringCase(result, KwBuildFailure)
                /\ ~ContainsIgnoringCase(result, KwBuildSuccess))
               => verdict[1] = FALSE

\* the upper-case failure line of tool A, classified false
C13_Witness ==
    /\ verdict = <<FALSE>>
    /\ resultTool = "gradle"
    /\ Includes(result, <<"B", "U", "I", "L", "D", " ", "F", "A", "I", "L", "E", "D">>)

(***************************************************************************)
(* The test runner: the command, the tool, the exit code.                  *)
(***************************************************************************)

\* the argument lists of the claim; an argument is a sequence of pieces, the
\* target name being one piece
ClaimedArgs(kind, tool, name) ==
    CASE tool = "gradle" /\ kind = "all"    -> << <<"test">> >>
      [] tool = "gradle" /\ kind = "single" -> << <<"test">>, <<"--tests">>, name, <<"--info">> >>
      [] tool = "maven"  /\ kind = "all"    -> << <<"test">> >>
      [] tool = "maven"  /\ kind = "single" -> << <<"test">>, <<"-Dtest=">> \o name >>

\* the same with the argument list the code gives an all-tests run of tool A
FixedArgs(kind, tool, name) ==
    IF tool = "gradle" /\ kind = "all"
    THEN << <<"test">>, <<"--info">> >>
    ELSE ClaimedArgs(kind, tool, name)

\* C14, as claimed: the argument list of a launched build is [test] for an
\* all-tests run of either tool, [test, --tests, <name>, --info] for a
\* single-target run of tool A and [test, -Dtest=<name>] for one of tool B.
C14_ArgsAsClaimed ==
    child # "none" => args = ClaimedArgs(runKind, buildTool, testClassName)

\* C14, amended: as claimed, but an all-tests run of tool A is launched with
\* [test, --info]; the target name is the whole third argument for tool A
\* and the tail of the second for tool B, whatever it holds.
C14_ArgsPerToolAndKind ==
    child # "none"
        => /\ buildTool \in {"gradle", "maven"}
           /\ args = FixedArgs(runKind, buildTool, testClassName)
           /\ runKind = "single" =>
                 IF buildTool = "gradle"
                 THEN Len(args) = 4 /\ args[3] = testClassName
                 ELSE Len(args) = 2

\* an all-tests run of tool A and its launched command
C14_Witness ==
    /\ child = "exited"
    /\ runKind = "all"
    /\ buildTool = "gradle"
    /\ args = << <<"test">>, <<"--info">> >>

\* C15: the detected tool is tool A when build.gradle or build.gradle.kts is
\* at the root, also when pom.xml is there too, and then pom.xml is not
\* looked for; it is tool B when only pom.xml is there, and null when none of
\* the three is.
C15_GradleBeforeMaven ==
    buildTool # "undetected"
        => /\ buildTool =
                 IF "build.gradle" \in rootFiles \/ "build.gradle.kts" \in rootFiles
                 THEN "gradle"
                 ELSE IF "pom.xml" \in rootFiles THEN "maven" ELSE "null"
           /\ buildTool = "gradle" => findFilesCalls = 1
           /\ buildTool # "gradle" => findFilesCalls = 2

\* a workspace with the descriptors of both tools, detected as tool A
C15_Witness ==
    /\ rootFiles = {"build.gradle.kts", "pom.xml"}
    /\ buildTool = "gradle"
    /\ child = "running"

\* C16: when the process closes while the call is pending, the call resolves
\* with stdout, a line break, stderr if the exit code is zero or if stdout
\* or stderr is not empty, and rejects if the exit code is not zero and both
\* are empty; a call that has settled before is left as it is.
C16_CloseDecides ==
    [][ (child # "exited" /\ child' = "exited")
            => LET out == Concat(stdout)
                   err == Concat(stderr)
               IN  /\ exitCode' # <<>>
                   /\ promise.state = "pending" =>
                         IF exitCode'[1] # 0 /\ out = <<>> /\ err = <<>>
                         THEN promise'.state = "rejected" /\ promise'.error = MsgExitCode
                         ELSE promise' = Resolved(out \o <<"\n">> \o err)
                   /\ promise.state # "pending" => promise' = promise
      ]_vars

\* a build that failed with exit code 1 and printed its failure: the call
\* resolved with the output and the run posted a negative result
C16_Witness ==
    /\ exitCode = <<1>>
    /\ stdout # <<>>
    /\ promise.state = "resolved"
    /\ posts = <<PostRunning, PostResult(FALSE)>>

(***************************************************************************)
(* The path resolver: resolveTestPath, convertToTestPath.                  *)
(***************************************************************************)

\* a call that returned a path computed from the source path
Computed == testUri # <<>> /\ inWorkspace /\ suggestedPath = <<>>

\* the relative source path with forward slashes
Forward(path) == [k \in 1..Len(path) |-> IF path[k] = "\\" THEN "/" ELSE path[k]]

\* the path below the workspace root
UnderRoot(path) == WorkspaceRoot \o <<"/">> \o path

\* out is path with its first occurrence of from replaced by to
MappedBy(path, from, to, out) ==
    \E k \in 0..(Len(path) - Len(from)) :
        /\ SubSeq(path, k + 1, k + Len(from)) = from
        /\ \A j \in 0..(k - 1) : SubSeq(path, j + 1, j + Len(from)) # from
        /\ out = SubSeq(path, 1, k) \o to \o SubSeq(path, k + Len(from) + 1, Len(path))

\* the file name of a path, its unit name and its extension
UnitFile(path) == SubSeq(path, LastIndex(path, "/") + 1, Len(path))

UnitName(path) ==
    LET file == UnitFile(path)
    IN  IF LastIndex(file, ".") <= 1 THEN file
        ELSE SubSeq(file, 1, LastIndex(file, ".") - 1)

UnitExtension(path) ==
    SubSeq(UnitFile(path), Len(UnitName(path)) + 1, Len(UnitFile(path)))

\* the path with 'Test' behind its unit name, if the name does not end so
Suffixed(path) ==
    IF EndsWith(UnitName(path), <<"T", "e", "s", "t">>) THEN path
    ELSE SubSeq(path, 1, LastIndex(path, "/")) \o UnitName(path)
             \o <<"T", "e", "s", "t">> \o UnitExtension(path)

\* the three rules of the mapping table
ContainsSrcMainJava(path) == Includes(path, <<"s", "r", "c", "/", "m", "a", "i", "n", "/", "j", "a", "v", "a">>)
ContainsMainJava(path) == Includes(path, <<"m", "a", "i", "n", "/", "j", "a", "v", "a">>)
ContainsSrcMainKotlin(path) == Includes(path, <<"s", "r", "c", "/", "m", "a", "i", "n", "/", "k", "o", "t", "l", "i", "n">>)

\* C17: with a suggested path, and a workspace folder, resolveTestPath
\* returns the suggested path below the workspace root, character for
\* character, whatever the source path: no rule is applied and no suffix
\* added.
C17_OverrideVerbatim ==
    (testUri # <<>> /\ inWorkspace /\ suggestedPath # <<>>)
        => /\ testUri[1] = UnderRoot(suggestedPath)
           /\ testPath = <<>>

\* a suggested path that a rule would map and the suffix step would change,
\* returned as it is
C17_Witness ==
    /\ testUri # <<>>
    /\ inWorkspace
    /\ ContainsSrcMainJava(suggestedPath)
    /\ Suffixed(suggestedPath) # suggestedPath
    /\ ContainsMainJava(sourcePath)

\* C18: without a suggested path, a path that contains src/main/java is
\* mapped by replacing its first occurrence with src/test/java; otherwise
\* one that contains main/java by replacing that with test/java; otherwise
\* one that contains src/main/kotlin by replacing that with src/test/kotlin;
\* the result is the mapped path below the root, with the suffix Test in
\* front of the extension.  src/main/java/com/example/Calculator.java
\* resolves to src/test/java/com/example/CalculatorTest.java.
C18_FirstMatchingRule ==
    Computed =>
        LET path == Forward(sourcePath)
        IN  /\ ContainsSrcMainJava(path)
                => MappedBy(path, <<"s", "r", "c", "/", "m", "a", "i", "n", "/", "j", "a", "v", "a">>, <<"s", "r", "c", "/", "t", "e", "s", "t", "/", "j", "a", "v", "a">>, testPath[1])
            /\ (~ContainsSrcMainJava(path) /\ ContainsMainJava(path))
                => MappedBy(path, <<"m", "a", "i", "n", "/", "j", "a", "v", "a">>, <<"t", "e", "s", "t", "/", "j", "a", "v", "a">>, testPath[1])
            /\ (~ContainsSrcMainJava(path) /\ ~ContainsMainJava(path)
                    /\ ContainsSrcMainKotlin(path))
                => MappedBy(path, <<"s", "r", "c", "/", "m", "a", "i", "n", "/", "k", "o", "t", "l", "i", "n">>, <<"s", "r", "c", "/", "t", "e", "s", "t", "/", "k", "o", "t", "l", "i", "n">>, testPath[1])
            /\ testUri[1] = UnderRoot(Suffixed(testPath[1]))
            /\ sourcePath = <<"s", "r", "c", "/", "m", "a", "i", "n", "/", "j", "a", "v", "a", "/", "c", "o", "m", "/", "e", "x", "a", "m", "p", "l", "e", "/", "C", "a", "l", "c", "u", "l", "a", "t", "o", "r", ".", "j", "a", "v", "a">>
                => testUri[1] = UnderRoot(<<"s", "r", "c", "/", "t", "e", "s", "t", "/", "j", "a", "v", "a", "/", "c", "o", "m", "/", "e", "x", "a", "m", "p", "l", "e", "/", "C", "a", "l", "c", "u", "l", "a", "t", "o", "r", "T", "e", "s", "t", ".", "j", "a", "v", "a">>)

\* a path that holds main/java in front of src/main/java: the first rule
\* applies to it, and not at the first place the second would
C18_Witness ==
    /\ Computed
    /\ ContainsSrcMainJava(sourcePath)
    /\ IndexOf(sourcePath, <<"m", "a", "i", "n", "/", "j", "a", "v", "a">>) < IndexOf(sourcePath, <<"s", "r", "c", "/", "m", "a", "i", "n", "/", "j", "a", "v", "a">>)
    /\ UnitName(sourcePath) = <<"C", "a", "l", "c", "u", "l", "a", "t", "o", "r">>

\* C19: the unit name of the resolved path is the source's unit name when
\* that ends with Test, and the source's unit name followed by one Test
\* otherwise; when it ends with Test the suffix step changes nothing of the
\* path.
C19_SuffixOnce ==
    Computed =>
        LET name == UnitName(Forward(sourcePath))
        IN  IF EndsWith(name, <<"T", "e", "s", "t">>)
            THEN /\ UnitName(testUri[1]) = name
                 /\ testUri[1] = UnderRoot(testPath[1])
            ELSE UnitName(testUri[1]) = name \o <<"T", "e", "s", "t">>

\* a source unit whose name ends with Test, resolved by the first rule
C19_Witness ==
    /\ Computed
    /\ UnitFile(sourcePath) = <<"C", "a", "l", "c", "u", "l", "a", "t", "o", "r", "T", "e", "s", "t", ".", "j", "a", "v", "a">>
    /\ ContainsSrcMainJava(sourcePath)

\* C20: when the path contains none of src/main/java, main/java and
\* src/main/kotlin, convertToTestPath returns src/test/java/ followed by
\* the path.
C20_DefaultPrefix ==
    LET path == Forward(sourcePath)
    IN  (/\ testPath # <<>>
         /\ ~ContainsSrcMainJava(path)
         /\ ~ContainsMainJava(path)
         /\ ~ContainsSrcMainKotlin(path))
            => testPath[1] = <<"s", "r", "c", "/", "t", "e", "s", "t", "/", "j", "a", "v", "a">> \o <<"/">> \o path

\* a source file below a directory no rule knows
C20_Witness ==
    /\ testPath # <<>>
    /\ sourcePath = <<"l", "i", "b", "/", "c", "o", "m", "/", "e", "x", "a", "m", "p", "l", "e", "/", "C", "a", "l", "c", "u", "l", "a", "t", "o", "r", ".", "j", "a", "v", "a">>
    /\ testUri = <<UnderRoot(<<"s", "r", "c", "/", "t", "e", "s", "t", "/", "j", "a", "v", "a", "/", "l", "i", "b", "/", "c", "o", "m", "/", "e", "x", "a", "m", "p", "l", "e", "/", "C", "a", "l", "c", "u", "l", "a", "t", "o", "r", "T", "e", "s", "t", ".", "j", "a", "v", "a">>)>>

(***************************************************************************)
(* parseJavaPath.                                                          *)
(***************************************************************************)

\* the segments of a path: the parts its '/' characters separate
RECURSIVE Segments(_)
Segments(path) ==
    IF "/" \notin Range(path) THEN <<path>>
    ELSE <<SubSeq(path, 1, FirstIndex(path, "/") - 1)>>
             \o Segments(SubSeq(path, FirstIndex(path, "/") + 1, Len(path)))

HasTestSegment(path) ==
    \E k \in 1..Len(Segments(path)) : Segments(path)[k] = <<"t", "e", "s", "t">>

\* a call of parseJavaPath that returned a record
Parsed == pathInfo # <<>> /\ inWorkspace

\* C21: parseJavaPath sets isTestFile to true if and only if the normalized
\* relative path has a segment equal to 'test', in any position, or the unit
\* name ends with 'Test'.
C21_TestSegmentOrSuffix ==
    Parsed =>
        (pathInfo[1].isTestFile
            <=> \/ HasTestSegment(Forward(sourcePath))
                \/ EndsWith(UnitName(sourcePath), <<"T", "e", "s", "t">>))

(***************************************************************************)
(* extractClassInfo.                                                       *)
(***************************************************************************)

\* the modifiers a class declaration may bear
ClassModifiers == {"public", "protected", "private", "abstract", "static", "final", "strictfp"}

\* the position of the name in a line that declares a class (modifiers, the
\* keyword class, a name), 0 in any other line
DeclaredNameIndex(line) ==
    LET p == FirstIndex(line, "class")
    IN  IF /\ p >= 1
           /\ p < Len(line)
           /\ line[p + 1] \notin Punctuation
           /\ \A k \in 1..(p - 1) : line[k] \in ClassModifiers
        THEN p + 1 ELSE 0

\* the lines of a text that declare a class, and those that declare its package
ClassDeclarations(code) == {k \in 1..Len(code) : DeclaredNameIndex(code[k]) # 0}

PackageDeclarations(code) ==
    {k \in 1..Len(code) : Len(code[k]) = 3 /\ code[k][1] = "package" /\ code[k][3] = ";"}

Lowest(S) == CHOOSE k \in S : \A k2 \in S : k <= k2

\* a call of extractClassInfo that has returned
Returned == infoPc = "done" /\ classInfo # <<>>

\* C22: extractClassInfo returns null when the text contains no class
\* declaration, and otherwise a record with the name of the declared class,
\* the declared package ('' when none is declared) and the list
\* extractMethods returned.
C22_NullOrRecord ==
    Returned =>
        IF ClassDeclarations(sourceCode) = {}
        THEN classInfo[1].isNull
        ELSE /\ ~classInfo[1].isNull
             /\ LET line == sourceCode[Lowest(ClassDeclarations(sourceCode))]
                IN  classInfo[1].name = line[DeclaredNameIndex(line)]
             /\ classInfo[1].packageName =
                    IF PackageDeclarations(sourceCode) = {} THEN ""
                    ELSE sourceCode[Lowest(PackageDeclarations(sourceCode))][2]
             /\ classInfo[1].methods = methods

\* C23: for the six-line Calculator unit extractClassInfo returns the
\* package 'com.example', the name 'Calculator' and exactly one member: add,
\* of return type int, with the modifier list [public], from line 3 to
\* line 5; line 6, which closes the class, belongs to no member.
C23_CalculatorExample ==
    (Returned /\ sourceCode = CalculatorUnit) =>
        /\ ~classInfo[1].isNull
        /\ classInfo[1].packageName = "com.example"
        /\ classInfo[1].name = "Calculator"
        /\ Len(classInfo[1].methods) = 1
        /\ classInfo[1].methods[1].name = "add"
        /\ classInfo[1].methods[1].returnType = "int"
        /\ classInfo[1].methods[1].modifiers = <<"public">>
        /\ classInfo[1].methods[1].startLine = 3
        /\ classInfo[1].methods[1].endLine = 5
        /\ \A k \in 1..Len(classInfo[1].methods) :
               ~(classInfo[1].methods[k].startLine <= 6 /\ 6 <= classInfo[1].methods[k].endLine)

\* the Calculator unit has been processed
C23_Witness ==
    /\ Returned
    /\ sourceCode = CalculatorUnit
    /\ i = 6

(***************************************************************************)
(* The summary of the build output.                                        *)
(***************************************************************************)

\* the keywords that make a line qualify
SummaryKeywords ==
    { <<"t", "e", "s", "t">>, <<"p", "a", "s", "s", "e", "d">>, <<"f", "a", "i", "l", "e", "d">>, <<"s", "u", "c", "c", "e", "s", "s">>, <<"f", "a", "i", "l", "u", "r", "e">>, <<"e", "r", "r", "o", "r">>,
      <<"b", "u", "i", "l", "d">>, <<"r", "u", "n", "n", "i", "n", "g">> }

\* a line qualifies by a keyword, in any case, or by '>' as its first
\* character that is not white space
Qualifies(line) ==
    \/ \E kw \in SummaryKeywords : ContainsIgnoringCase(line, kw)
    \/ \E k \in 1..Len(line) : line[k] = ">" /\ \A j \in 1..(k - 1) : line[j] \in {" ", "\t"}

\* the qualifying lines of the output, in their order, and the lines of the
\* summary
QualifyingLines == SelectSeq(SplitLines(testOutput), Qualifies)
SummaryLines == SplitLines(details[1])
MarkerLine24 == <<".", ".", ".", " ", "(", "t", "r", "u", "n", "c", "a", "t", "e", "d", ")">>

\* C24, as claimed: the summary holds the qualifying lines only, in their
\* order, the first 30 of them at most, with the marker behind them exactly
\* when more than 30 qualified, and it has at most 30 lines.
C24_AtMostThirtyLines ==
    details # <<>> =>
        /\ Len(QualifyingLines) > 30
               => SummaryLines = SubSeq(QualifyingLines, 1, 30) \o <<MarkerLine24>>
        /\ Len(QualifyingLines) <= 30 => details[1] = JoinLines(QualifyingLines)
        /\ Len(SummaryLines) <= 30

\* C24, amended: when a line qualifies, the summary holds the qualifying
\* lines only, in their order, the first 30 of them at most, with the marker
\* as one more line exactly when more than 30 qualified: at most 31 lines.
\* When no line qualifies the summary is the first 1000 characters of the
\* output.
C24_BoundedSummary ==
    details # <<>> =>
        /\ Len(QualifyingLines) > 30
               => /\ SummaryLines = SubSeq(QualifyingLines, 1, 30) \o <<MarkerLine24>>
                  /\ Len(SummaryLines) = 31
        /\ Len(QualifyingLines) \in 1..30 => SummaryLines = QualifyingLines
        /\ Len(QualifyingLines) = 0
               => /\ Len(details[1]) <= 1000
                  /\ Len(details[1]) = 1000 \/ Len(details[1]) = Len(testOutput)
                  /\ details[1] = SubSeq(testOutput, 1, Len(details[1]))

\* more than 30 lines qualified, among lines that do not
C24_Witness ==
    /\ details # <<>>
    /\ Len(QualifyingLines) > 30
    /\ Len(SplitLines(testOutput)) > Len(QualifyingLines)

(***************************************************************************)
(* The test runner: a workspace without a build descriptor.                *)
(***************************************************************************)

\* no descriptor of tool A or tool B lies at the workspace root
NoDescriptor == rootFiles \cap (GradleDescriptors \cup MavenDescriptors) = {}

\* C25: when no build descriptor is found, a run of either kind launches no
\* process (no argument list, no child, no timer, no promise), looks for the
\* descriptors once each and not again, and ends with the message
\* 'testError' carrying the unknown-build-tool error.
C25_NoToolNoProcess ==
    /\ NoDescriptor =>
           /\ child = "none"
           /\ args = <<>>
           /\ timer = NoTimer
           /\ promise.state = "none"
           /\ findFilesCalls <= 2
           /\ (pc = "done" /\ runKind # "none")
                  => posts[Len(posts)].command = "testError"
           /\ (pc = "done" /\ findFilesCalls = 2)
                  => /\ buildTool = "null"
                     /\ posts[Len(posts)] = PostError(MsgNoBuildFile)
    /\ buildTool = "null" =>
           /\ NoDescriptor
           /\ pc = "done"
           /\ findFilesCalls = 2
           /\ posts = <<PostRunning, PostError(MsgNoBuildFile)>>

\* an all-tests run that found no descriptor
C25_Witness ==
    /\ buildTool = "null"
    /\ runKind = "all"
    /\ pc = "done"

(***************************************************************************)
(* The validation of the target name.                                      *)
(***************************************************************************)

\* an identifier: a letter, '_' or '$', then letters, digits, '_' or '$'
Identifier(s) ==
    /\ s # <<>>
    /\ s[1] \in Letters \cup {"_", "$"}
    /\ \A k \in 2..Len(s) : s[k] \in Letters \cup Digits \cup {"_", "$"}

RECURSIVE DottedParts(_)
\* the parts of a name that its dots separate
DottedParts(s) ==
    IF "." \notin Range(s) THEN <<s>>
    ELSE <<SubSeq(s, 1, FirstIndex(s, ".") - 1)>>
             \o DottedParts(SubSeq(s, FirstIndex(s, ".") + 1, Len(s)))

\* the name without its trailing '*', if it has one
WithoutStar(s) ==
    IF s # <<>> /\ s[Len(s)] = "*" THEN SubSeq(s, 1, Len(s) - 1) ELSE s

\* one or more identifiers separated by dots, and at most one '*' behind them
ValidTargetName(s) ==
    \A k \in 1..Len(DottedParts(WithoutStar(s))) : Identifier(DottedParts(WithoutStar(s))[k])

\* characters no accepted name may hold
ShellCharacters == {" ", ";", "/", "'", "\"", "|", "&", "-", "\\", "<", ">", "(", ")"}

PostsGenerateTest ==
    /\ Len(webviewPosts') = Len(webviewPosts) + 1
    /\ webviewPosts'[Len(webviewPosts')].command = "generateTestForFile"

\* C27: after any sequence of user actions and extension messages the
\* Generate Test button is enabled if and only if the scenarios are
\* approved, and a 'generateTestForFile' message is posted only while a file
\* is selected and the scenarios are approved.
C27_GenerateOnlyWhenApproved ==
    /\ [](btnGenerateSelectedDisabled <=> ~scenariosApproved)
    /\ [][PostsGenerateTest => (currentFilePath # <<>> /\ scenariosApproved)]_vars

\* a test has been requested for the approved scenarios of a selected file
C27_Witness ==
    /\ webviewPosts # <<>>
    /\ webviewPosts[Len(webviewPosts)].command = "generateTestForFile"
    /\ scenariosApproved
    /\ ~btnGenerateSelectedDisabled
    /\ currentFilePath # <<>>

(***************************************************************************)
(* The scanner: the end of a member, the lines in front of the unit.       *)
(***************************************************************************)

\* the running depth at line k of a member declared on line s: the opening
\* minus the closing boundary characters of lines s..k (blank and comment
\* lines hold none that count)
RunningDepth(code, s, k) == DepthAfter(code, k) - DepthAfter(code, s - 1)

\* the lines behind the declaration line s at which the running depth is
\* back at zero
ClosingLines(code, s) == {k \in (s + 1)..Len(code) : RunningDepth(code, s, k) <= 0}

\* C28: a member whose declaration line opens its body ends on the first
\* line at which the running depth, counted from the declaration line on, is
\* back at zero; it is emitted at that line, and the scanner then tracks no
\* member, so that the next declaration starts a new one.
C28_EndsWhereDepthReturns ==
    /\ \A k \in 1..Len(methods) :
           NetBraces(sourceCode[methods[k].startLine]) > 0
               => /\ ClosingLines(sourceCode, methods[k].startLine) # {}
                  /\ methods[k].endLine = Lowest(ClosingLines(sourceCode, methods[k].startLine))
    /\ (methods # <<>> /\ methods[Len(methods)].endLine = i)
           => (~inMethod /\ currentMethod = <<>> /\ braceCount = 0)

\* the first unit-opening line of the scanned text, 0 when it has none
FirstClassStart(code) ==
    IF \E k \in 1..Len(code) : IsClassStart(code[k])
    THEN Lowest({k \in 1..Len(code) : IsClassStart(code[k])})
    ELSE 0

\* C29: no member, emitted or being tracked, is declared on a line in front
\* of the first unit-opening line, and a text without a unit-opening line
\* yields no member at all.
C29_NoMemberBeforeUnit ==
    LET u == FirstClassStart(sourceCode)
    IN  /\ u = 0 => (methods = <<>> /\ currentMethod = <<>>)
        /\ \A k \in 1..Len(methods) : methods[k].startLine > u
        /\ \A k \in 1..Len(currentMethod) : currentMethod[k].startLine > u
        /\ ~classStarted => (methods = <<>> /\ currentMethod = <<>>)

\* a finished scan of a text whose first line matches the declaration
\* pattern, whose second line opens the unit, and whose only member starts
\* behind it
C29_Witness ==
    /\ ScanDone
    /\ Len(sourceCode) >= 3
    /\ MethodMatches(sourceCode[1])
    /\ MatchReturnType(sourceCode[1]) # MatchName(sourceCode[1])
    /\ IsClassStart(sourceCode[2])
    /\ Len(methods) = 1
    /\ methods[1].startLine >= 3

(***************************************************************************)
(* The directive merger: what is added.                                    *)
(***************************************************************************)

RECURSIVE NotAmong(_, _)
\* the directives of a list that do not occur in a set, in the list's order
NotAmong(directives, known) ==
    IF directives = <<>> THEN <<>>
    ELSE (IF Head(directives) \in known THEN <<>> ELSE <<Head(directives)>>)
             \o NotAmong(Tail(directives), known)

\* the directives of the fragment that the text does not have
MissingFrom(text) == NotAmong(ExtractImports(newCode), Range(ExtractImports(text)))

\* after is before with one line 'import d;' for each directive d of added,
\* in that order, placed together at some line
AddedTo(before, added, after) ==
    \E idx \in 0..Len(before) :
        after = SubSeq(before, 1, idx)
                    \o [k \in 1..Len(added) |-> <<"import", added[k], ";">>]
                    \o SubSeq(before, idx + 1, Len(before))

\* the text the n-th merge was applied to
TextBefore(n) == IF n = 1 THEN existingCode ELSE merged[n - 1]

\* C30: the directives mergeImports adds are exactly the extracted
\* directives of the fragment that do not occur among the extracted
\* directives of the existing text, in the fragment's order; when there is
\* none, the existing text is returned unchanged.
C30_AddsTheDifference ==
    \A n \in 1..Len(merged) :
        IF MissingFrom(TextBefore(n)) = <<>>
        THEN merged[n] = TextBefore(n)
        ELSE AddedTo(TextBefore(n), MissingFrom(TextBefore(n)), merged[n])

\* a merge that added one directive of the fragment and left out another,
\* which the existing text had
C30_Witness ==
    /\ Len(merged) >= 1
    /\ MissingFrom(existingCode) # <<>>
    /\ Len(MissingFrom(existingCode)) < Len(ExtractImports(newCode))
    /\ merged[1] # existingCode

(***************************************************************************)
(* _executeCommand: the race of 'error', 'close' and the timer.            *)
(***************************************************************************)

\* the three events that compete for the outcome of a call
ErrorEvent == child = "running" /\ child' = "failed"
CloseEvent == child \in {"running", "failed"} /\ child' = "exited"
TimerEvent == timer.state = "pending" /\ timer'.state = "fired"

Settled == promise.state \in {"resolved", "rejected"}

\* the safety part of C31
C31_FirstEventDecides ==
    [][ /\ (promise.state = "pending" /\ ErrorEvent) => promise' = Rejected(MsgSpawn)
        /\ (promise.state = "pending" /\ CloseEvent)
              => \/ promise' = Rejected(MsgExitCode)
                 \/ promise' = Resolved(Concat(stdout) \o <<"\n">> \o Concat(stderr))
        /\ (promise.state = "pending" /\ TimerEvent) => promise' = Rejected(MsgTimedOut)
        /\ (promise.state = "pending" /\ promise' # promise)
              => ErrorEvent \/ CloseEvent \/ TimerEvent
        /\ Settled => promise' = promise
      ]_vars

\* C31: the outcome of a call is decided by the first of 'error', 'close'
\* and the expiry of the timer, and no later event changes it: a 'close'
\* after a timeout rejection does not make a result, a timer that expires
\* after a completed run does not make a timeout.  With a fair timer every
\* call eventually settles.
C31_RaceDecidedOnce ==
    /\ C31_FirstEventDecides
    /\ (promise.state = "pending") ~> Settled

\* the process closed first and the call resolved; the timer expired
\* afterwards, and the run still ended with a classified result
C31_Witness ==
    /\ promise.state = "resolved"
    /\ timer.state = "fired"
    /\ signals = <<>>
    /\ pc = "done"
    /\ posts[2].command = "testResult"

(***************************************************************************)
(* The scanner: a member that is still open at the end of the text.        *)
(***************************************************************************)

\* the member declared on line s opens a body that is still open at the end
\* of the text: the running depth never returns to zero
StaysOpen(code, s) == NetBraces(code[s]) > 0 /\ ClosingLines(code, s) = {}

\* ms is an initial part of ns
IsPrefix(ms, ns) == Len(ms) <= Len(ns) /\ SubSeq(ns, 1, Len(ms)) = ms

\* C32: a member whose body never returns to depth zero before the end of
\* the text is not among the returned members; the members completed before
\* it stay in the list as they were emitted; the loop reads one line per
\* step and ends with the last line.
C32_OpenMemberNotEmitted ==
    /\ [](ScanDone => \A k \in 1..Len(methods) :
                          ~StaysOpen(sourceCode, methods[k].startLine))
    /\ [][IsPrefix(methods, methods') /\ i' = i + 1 /\ i' <= Len(sourceCode)]_scanVars

(***************************************************************************)
(* The path resolver: the resolved path parsed back.                       *)
(***************************************************************************)

\* the position of the first 'main' segment that a 'java' segment follows,
\* 0 when there is none
MainJavaIndex(segs) ==
    LET found == {k \in 1..(Len(segs) - 1) :
                     segs[k] = <<"m", "a", "i", "n">> /\ segs[k + 1] = <<"j", "a", "v", "a">>}
    IN  IF found = {} THEN 0 ELSE Lowest(found)

\* the directory segments of a relative path
DirSegments(path) == IF ParseDir(path) = <<>> THEN <<>> ELSE Segments(ParseDir(path))

\* the path lies under main/java, with or without src in front
UnderMainJava(path) == MainJavaIndex(DirSegments(path)) > 0

\* the directory segments of the counterpart: those of the source, with
\* 'test' for the 'main' of the source root and the package directories
\* behind it as they are
CounterpartSegments(path) ==
    [DirSegments(path) EXCEPT ![MainJavaIndex(DirSegments(path))] = <<"t", "e", "s", "t">>]

\* both calls of parseJavaPath returned, for a computed test path
ParsedBack == Computed /\ Parsed /\ testInfo # <<>>

\* C33: for every relative source path under src/main/java or main/java,
\* the path resolveTestPath computes parses back to the namespace of the
\* source path and to isTestFile = true, and its directory segments are
\* those of the source with the source root mapped to the test root: the
\* package directories are unchanged.
C33_ResolvedParsesBack ==
    (ParsedBack /\ UnderMainJava(Forward(sourcePath)))
        => /\ ~testInfo[1].threw
           /\ testInfo[1].packageName = pathInfo[1].packageName
           /\ testInfo[1].isTestFile
           /\ DirSegments(testInfo[1].relativePath) = CounterpartSegments(Forward(sourcePath))

(***************************************************************************)
(* The status bar: the success timer.                                      *)
(***************************************************************************)

\* a step in which the callback of a success timer runs
TimeoutFires == firedTimeouts' # firedTimeouts

\* C34: at most one success timer is pending at any time; a pending timer
\* is the one of the last setSuccess and the state is still Success; every
\* state set after setSuccess cancels the pending timer, so the callback
\* runs only in state Success, on the timer of the last setSuccess, and
\* sets the state to Ready.
C34_SuccessTimerNeverOverwrites ==
    /\ [](Cardinality(timeouts) <= 1)
    /\ [](timeouts # {} => (currentState = "success" /\ successTimeout # <<>>
                              /\ timeouts = {successTimeout[1]}))
    /\ [][TimeoutFires => /\ currentState = "success"
                          /\ successTimeout = <<firedTimeouts'[Len(firedTimeouts')]>>
                          /\ currentState' = "ready"
                          /\ timeouts' = {}]_vars
    /\ [][(timeouts # {} /\ ~TimeoutFires) => timeouts' \cap timeouts \in {{}, timeouts}]_vars
    /\ [][(timeouts # {} /\ (currentState' # "success" \/ timeoutCount' # timeoutCount))
              => timeouts' \cap timeouts = {}]_vars

\* setSuccess was called three times; the timers of the first two calls were
\* cancelled, the timer of the third fired and set the state to Ready
C34_Witness ==
    /\ timeoutCount = 3
    /\ firedTimeouts = <<3>>
    /\ currentState = "ready"
    /\ timeouts = {}

(***************************************************************************)
(* The generateTest command: the status bar, the test file.                *)
(***************************************************************************)

\* the last status bar state an invocation has set
LastCall(n) == statusCalls[n][Len(statusCalls[n])]

\* C35: an invocation sets the status bar to Generating first, if it sets it
\* at all, and an invocation that has returned after setting Generating has
\* set Ready, Success or Error as its last state, on every path: a
\* cancellation seen at a checkpoint, a failed or unsuccessful request, a
\* declined overwrite, a failed backup, save or open, a success.
C35_GeneratingAlwaysLeft ==
    \A n \in Invocations :
        /\ statusCalls[n] # <<>> => statusCalls[n][1] = "generating"
        /\ genPc[n] \in GenInProgress => statusCalls[n] # <<>>
        /\ genPc[n] \in GenReturned =>
              \/ statusCalls[n] = <<>> /\ genPc[n] = "notStarted"
              \/ /\ statusCalls[n] # <<>>
                 /\ LastCall(n) \in {"ready", "success", "error"}
                 /\ genPc[n] \in {"cancelled", "declined"} => LastCall(n) = "ready"
                 /\ genPc[n] = "failed" => LastCall(n) = "error"
                 /\ genPc[n] = "finished" => LastCall(n) = "success"

\* one invocation was cancelled, the other failed after it had reported its
\* success
C35_Witness ==
    /\ genPc[1] = "cancelled"
    /\ statusCalls[1] = <<"generating", "ready">>
    /\ genPc[2] = "failed"
    /\ statusCalls[2] = <<"generating", "success", "error">>

\* the file operations of invocation n, in order
OpsOf(n) == SelectSeq(fileOps, LAMBDA o : o.by = n)

\* a step in which invocation n writes the test file
WritesTestFile(n) ==
    /\ Len(fileOps') = Len(fileOps) + 1
    /\ fileOps'[Len(fileOps')] = [by |-> n, op |-> "writeFile"]

\* C36: an invocation that saw the cancellation at a checkpoint, or whose
\* overwrite prompt was answered 'Cancel' or dismissed, has not called
\* saveTestFile, has written no file, and its return leaves the test file as
\* it was; an invocation answered 'Create Backup' writes the backup copy,
\* with the content the file has at that moment, before it calls
\* saveTestFile and overwrites the file.
C36_NoSaveWhenDeclined ==
    /\ [](\A n \in Invocations :
             /\ genPc[n] \in {"cancelled", "declined"} => OpsOf(n) = <<>>
             /\ (genPc[n] = "declined") <=> (overwrite[n] \in {"Cancel", "dismissed"})
             /\ genPc[n] = "cancelled" => cancellationRequested[n]
             /\ (overwrite[n] = "Create Backup" /\ OpsOf(n) # <<>>)
                   => /\ OpsOf(n)[1].op = "writeBackup"
                      /\ \A k \in 2..Len(OpsOf(n)) : OpsOf(n)[k].op # "writeBackup")
    /\ [][\A n \in Invocations :
             /\ (genPc[n] # genPc'[n] /\ genPc'[n] \in {"cancelled", "declined"})
                   => UNCHANGED <<testFileContent, backupFiles, fileOps>>
             /\ WritesTestFile(n) => /\ genPc[n] = "saveTestFile"
                                     /\ overwrite[n] \notin {"Cancel", "dismissed"}
             /\ (overwrite'[n] = "Create Backup" /\ Len(backupFiles') > Len(backupFiles)
                   /\ OpsOf(n)' # OpsOf(n))
                   => backupFiles' = Append(backupFiles, testFileContent[1])
         ]_vars

\* the first invocation was declined at the prompt; the second made a backup
\* of the existing file and then overwrote it
C36_Witness ==
    /\ genPc[1] = "declined"
    /\ overwrite[1] = "Cancel"
    /\ overwrite[2] = "Create Backup"
    /\ backupFiles = <<"existing">>
    /\ testFileContent = <<"generated 2">>
    /\ fileOps = << [by |-> 2, op |-> "writeBackup"], [by |-> 2, op |-> "saveTestFile"],
                    [by |-> 2, op |-> "writeFile"] >>


(***************************************************************************)
(* The scenario workflow: a response and the file it was requested for.    *)
(***************************************************************************)

\* C37: the scenario text of every 'generateTestForFile' message the script
\* posts for a file derives from a 'scenarioGenerated' response to a
\* generateScenarios request for that file, edited by the user or not, and
\* never from a response requested for a file selected before.
C37_ResponseOfTheSameFile ==
    \A k \in 1..Len(webviewPosts) :
        webviewPosts[k].command = "generateTestForFile"
            => RequestedFor(webviewPosts[k].scenarios) = <<webviewPosts[k].filePath>>


(***************************************************************************)
(* The API key of the requests.                                            *)
(***************************************************************************)

\* a step in which a call of setApiKey settles
SetApiKeySettles == Len(setCalls') = Len(setCalls) + 1

\* C38: a request sent after the load of the key has completed without an
\* error, while secret storage holds a key, carries an X-API-Key header with
\* that key; and
\* when setApiKey(k) succeeds, k is the stored key and the header of the
\* client is k.
C38_HeaderIsStoredKey ==
    /\ [](\A k \in 1..Len(sentRequests) :
             (sentRequests[k].loaded /\ sentRequests[k].stored # "")
                 => sentRequests[k].header = <<sentRequests[k].stored>>)
    /\ [][(SetApiKeySettles /\ setCalls'[Len(setCalls')].ok)
             => /\ secretKey' = setCalls'[Len(setCalls')].key
                /\ clientHeader' = CreateClient(setCalls'[Len(setCalls')].key)]_vars

====
